---- MODULE Spec2Model ----
(***************************************************************************)
(* NeuraAI gateway (src/main.py): the AI-reply orchestration chain, the     *)
(* chat handlers (HTTP /chat and the SocketIO "message" handler), the event *)
(* recorder (events.log + events table) and the background worker's         *)
(* rotation of events.log.                                                  *)
(*                                                                         *)
(* The specifications share the variables:                                 *)
(*   Spec          one request thread runs a chat handler from start to end; *)
(*   SpecAdapters  one adapter is called on its own;                        *)
(*   SpecFallback  simple_fallback_reply is called on its own;              *)
(*   SpecLog       several request threads call append_event while the      *)
(*                 background worker rotates events.log;                    *)
(*   SpecWorker    the background worker prunes and rotates until           *)
(*                 shutdown() stops it;                                     *)
(*   SpecBooks     request threads call list_books, add_book and get_book   *)
(*                 of src/book_platform.py;                                 *)
(*   SpecAdmin     a request to POST /admin/backup goes through             *)
(*                 require_admin.                                           *)
(*                                                                         *)
(* Values follow the type annotations of the source: a prompt is a str      *)
(* (a sequence of characters here), proxy_post returns a dict.              *)
(***************************************************************************)
EXTENDS Integers, Sequences, FiniteSets, TLC

\* ------------------------------------------------------------------ bounds
NThreads == 2
MaxAppends == 2
MaxClock == 2
RotateThreshold == 0
KeepAudio == 1
MaxAudio == 3
MaxBooks == 2
MaxGets == 2

Threads == 1..NThreads
MainThread == CHOOSE t \in Threads : \A u \in Threads : t <= u

\* ------------------------------------------------------------------ strings
\* A Python str is a sequence of one-character strings.
Upper == <<"A","B","C","D","E","F","G","H","I","J","K","L","M",
           "N","O","P","Q","R","S","T","U","V","W","X","Y","Z">>
Lowercase == <<"a","b","c","d","e","f","g","h","i","j","k","l","m",
               "n","o","p","q","r","s","t","u","v","w","x","y","z">>
Whitespace == {" ", "\t", "\n"}

LowerChar(c) ==
    IF \E i \in 1..Len(Upper) : Upper[i] = c
    THEN Lowercase[CHOOSE i \in 1..Len(Upper) : Upper[i] = c]
    ELSE c

\* str.lower()
str_lower(s) == [i \in 1..Len(s) |-> LowerChar(s[i])]

\* `sub in s`
str_in(sub, s) ==
    \E i \in 0..(Len(s) - Len(sub)) : SubSeq(s, i + 1, i + Len(sub)) = sub

RECURSIVE lstrip(_)
lstrip(s) == IF s # <<>> /\ Head(s) \in Whitespace THEN lstrip(Tail(s)) ELSE s

RECURSIVE rstrip(_)
rstrip(s) ==
    IF s # <<>> /\ s[Len(s)] \in Whitespace
    THEN rstrip(SubSeq(s, 1, Len(s) - 1))
    ELSE s

\* str.strip()
str_strip(s) == rstrip(lstrip(s))

\* The keyword literals of simple_fallback_reply.
KW_hello == <<"h","e","l","l","o">>
KW_hi == <<"h","i">>
KW_hey == <<"h","e","y">>
KW_time == <<"t","i","m","e">>
KW_health == <<"h","e","a","l","t","h">>
KW_crypto == <<"c","r","y","p","t","o">>

\* A JSON field that is not in the body (dict.get gives None).
Missing == <<"<missing>">>

\* Mutant: only None is falsy.
Truthy_NotNone(s) == s # Missing

\* Python truthiness of a body field holding a str or None.
Truthy(s) == s # Missing /\ s # <<>>

\* `a or b` on such fields.
Or(a, b) == IF Truthy(a) THEN a ELSE b

P_Hi == <<" ","H","i"," ">>

\* The prompts the requests are drawn from.
Prompts ==
    { <<>>,
      <<"h","e","l","l","o">>,
      <<"T","i","m","e","?">>,
      <<"c","r","y","p","t","o">>,
      <<"o","k">> }

\* ------------------------------------------------------------------ replies
\* A reply text is <<text, n>>: n is the part of the text that varies (the
\* clock reading in the server-time reply, the content chosen by a
\* collaborator); 0 for a fixed text.  The source's em dash is written "-".
GreetingText == <<"Hello - I'm NeuraAI Hyperluxe. Try asking 'recommend a book' or 'play a game'.", 0>>
HealthText == <<"I can help with basic health advice. Use /api/health/check with symptoms.", 0>>
CryptoText == <<"Connect a crypto insights module to get live market advice.", 0>>
DefaultText == <<"Interesting - tell me more.", 0>>
ServerTime(utcnow) == <<"Server time: ", utcnow>>
NoReplyHttp == <<"Sorry - no reply available.", 0>>
NoReplySocket == <<"No reply.", 0>>

\* dict.get("reply") of a dict without that key.
Absent == <<"<absent>", 0>>

\* A result dict {ok, reply, error, audio}: ok is the truthiness of
\* .get("ok"), reply Absent when the key is missing, error and audio "" when
\* missing or None.
Dict(ok, reply, error, audio) ==
    [ok |-> ok, reply |-> reply, error |-> error, audio |-> audio]

Ok(reply) == Dict(TRUE, reply, "", "")
Err(error) == Dict(FALSE, Absent, error, "")

\* What a collaborator call does: it returns value v or it raises.
Returns(v) == [kind |-> "returns", v |-> v]
Raises == [kind |-> "raises", v |-> 0]
CallOutcomes == {Returns(1), Raises}

\* The local modules ai_engine may be: absent, or a module exposing some of
\* the functions main.py probes with hasattr.
NoModule == [present |-> FALSE, attrs |-> {}]
Module(attrs) == [present |-> TRUE, attrs |-> attrs]
LocalModules ==
    { NoModule,
      Module({}),
      Module({"ai_generate", "ai_generate_openai"}),
      Module({"generate_reply", "openai_generate", "crypto_summary"}),
      Module({"chat", "crypto_summary"}) }

\* ------------------------------------------------------------------ state
VARIABLES
    AI_SERVICE_URL,     \* TRUE iff the environment sets it (main.py:76)
    OPENAI_API_KEY,     \* TRUE iff the environment sets it (main.py:72)
    VOICE_SERVICE_URL,  \* TRUE iff the environment sets it (main.py:77)
    USE_SOCKETIO,       \* flask_socketio was imported (main.py:45-51)
    local_ai,           \* safe_import("ai_engine") (main.py:162)
    local_voice,        \* the voice module exposes speak_text (main.py:163)
    pc,                 \* per thread: where it is in its handler
    handler,            \* per thread: the handler it runs
    req,                \* per thread: the parsed request
    res,                \* per thread: `res` of generate_ai_reply / the handler
    calls,              \* per thread: the functions generate_ai_reply called, in order
    ext,                \* per thread: the external requests made, in order
    fb,                 \* per thread: what simple_fallback_reply read (clock, crypto_summary)
    out,                \* per thread: the HTTP response
    emits,              \* per thread: the SocketIO events emitted
    reply,              \* per thread: the handler's local `reply`
    raised,             \* per thread: an exception left the handler
    db_attempts,        \* per thread: ChatLog commits attempted
    ev_attempts,        \* per thread: append_event calls made
    ae,                 \* per thread: the frame of the running append_event
    ncalls,             \* per thread: append_event calls started so far
    returned,           \* the append_event_file calls that have returned: the line, and whether it was written
    chat_logs,          \* table chat_logs: the set of its rows
    events_tbl,         \* table events: the set of its rows
    files,              \* inode -> content (a sequence of chunks)
    events_log,         \* the inode DATA_DIR/events.log names, 0 when it does not exist
    rotated,            \* the files named events_rotated_<ts>.log
    next_ino,           \* the next inode to allocate
    now,                \* int(time.time())
    wpc,                \* the background worker's position
    _shutdown,          \* threading.Event (main.py:751)
    env,                \* what the collaborators did in an adapter called on its own
    audio,              \* the directory STATIC_DIR/audio: whether it exists, and its files
    pass,               \* the prune of the worker's pass: the files it listed, the
                        \* slice it unlinks and what was removed; and whether a
                        \* prune of the worker has raised
    NEURA_ADMIN_TOKEN,  \* the environment variable (main.py:71), a str
    backups,            \* the files of PROJECT_ROOT/backups
    books_json,         \* the content of books.json (book_platform.py:17)
    lru,                \* the cache lru_cache keeps for list_books
    book_data,          \* per thread: `data`, the dict _read() gave add_book or get_book
    listing,            \* the last list_books call and what it returned
    hist                \* the add_book and get_book calls that have completed

config == <<AI_SERVICE_URL, OPENAI_API_KEY, VOICE_SERVICE_URL, USE_SOCKETIO, local_ai, local_voice,
           NEURA_ADMIN_TOKEN>>
gen == <<res, calls, ext, fb>>
frame == <<handler, req, reply, out, emits, raised, db_attempts, ev_attempts>>
recorder == <<ae, ncalls, returned, events_tbl>>
fs == <<files, events_log, rotated, next_ino>>
worker == <<wpc, _shutdown>>
maint == <<audio, pass>>
books == <<books_json, lru, book_data, listing, hist>>
vars == <<config, pc, gen, frame, recorder, chat_logs, fs, now, worker, env, maint, books,
         backups>>

\* ------------------------------------------------------------------ adapters
\* Every adapter returns [res |-> the dict it returns, ext |-> the external
\* requests it made].

\* What the network does to one POST: a JSON body comes back, or requests
\* raises (connection error, timeout, raise_for_status, invalid JSON).
MsBodies ==
    { Ok(<<"microservice reply", 1>>),
      Ok(Absent),
      Err("upstream_error"),
      Dict(FALSE, <<"microservice reply", 1>>, "", ""),
      Dict(FALSE, Absent, "", "") }
VoiceBodies ==
    { Dict(TRUE, Absent, "", "/static/audio/a.mp3"),
      Dict(TRUE, Absent, "", "") }
HttpJson(body) == [kind |-> "json", body |-> body]
HttpError == [kind |-> "error", body |-> Err("")]
MsHttp == {HttpJson(b) : b \in MsBodies} \cup {HttpError}
VoiceHttp == {HttpJson(b) : b \in VoiceBodies} \cup {HttpError}

\* An exception leaves the function: there is no returned dict.
Raised == Dict(FALSE, Absent, "<raised>", "")

\* Mutant: the exception of requests is not caught.
proxy_post_Uncaught(http) ==
    IF http.kind = "json" THEN http.body ELSE Raised

proxy_post(http) ==
    IF http.kind = "json" THEN http.body ELSE Err("str(e)")

\* Mutant: AI_SERVICE_URL is not tested, and None.rstrip raises.
ai_call_microservice_Unguarded(prompt, user, http) ==
    IF ~AI_SERVICE_URL
    THEN [res |-> Raised, ext |-> <<>>]
    ELSE [res |-> proxy_post(http), ext |-> <<"POST AI_SERVICE_URL/chat">>]

ai_call_microservice(prompt, user, http) ==
    IF ~AI_SERVICE_URL
    THEN [res |-> Err("no_microservice"), ext |-> <<>>]
    ELSE [res |-> proxy_post(http), ext |-> <<"POST AI_SERVICE_URL/chat">>]

\* loc: what the module's function does when called; chat_dict: the value
\* local_ai.chat returns is a dict with a "reply" key.
LocalEnv == [call : CallOutcomes, chat_dict : BOOLEAN]

ai_call_local_module(prompt, user, loc) ==
    IF ~local_ai.present
    THEN [res |-> Err("no_local_ai"), ext |-> <<>>]
    ELSE IF "ai_generate" \in local_ai.attrs
    THEN IF loc.call.kind = "returns"
         THEN [res |-> Ok(<<"local_ai.ai_generate", loc.call.v>>), ext |-> <<"local_ai.ai_generate">>]
         ELSE [res |-> Err("local_ai_failed"), ext |-> <<"local_ai.ai_generate">>]
    ELSE IF "generate_reply" \in local_ai.attrs
    THEN IF loc.call.kind = "returns"
         THEN [res |-> Ok(<<"local_ai.generate_reply", loc.call.v>>), ext |-> <<"local_ai.generate_reply">>]
         ELSE [res |-> Err("local_ai_failed"), ext |-> <<"local_ai.generate_reply">>]
    ELSE IF "chat" \in local_ai.attrs
    THEN IF loc.call.kind = "returns"
         THEN IF loc.chat_dict
              THEN [res |-> Ok(<<"local_ai.chat()['reply']", loc.call.v>>), ext |-> <<"local_ai.chat">>]
              ELSE [res |-> Ok(<<"str(local_ai.chat())", loc.call.v>>), ext |-> <<"local_ai.chat">>]
         ELSE [res |-> Err("local_ai_failed"), ext |-> <<"local_ai.chat">>]
    ELSE [res |-> Err("local_ai_failed"), ext |-> <<>>]

\* wrapper: what local_ai's OpenAI wrapper does; import: `import openai`;
\* primary: openai.chat.completions.create, whose response has choices with a
\* str content ("choices"), choices whose content is None so that .strip()
\* raises ("bad_content"), no choices attribute but a dict with choices
\* ("dict_choices"), neither ("no_choices"), or the call raises ("raises");
\* legacy: openai.Completion.create.
OpenaiEnv ==
    [wrapper : CallOutcomes, import : {"ok", "raises"},
     primary : {"choices", "bad_content", "dict_choices", "no_choices", "raises"},
     legacy : CallOutcomes]

OpenaiFailed == Err("openai_failed_or_not_configured")

ai_call_openai(prompt, user, oa) ==
    IF local_ai.present /\ "ai_generate_openai" \in local_ai.attrs
    THEN IF oa.wrapper.kind = "returns"
         THEN [res |-> Ok(<<"local_ai.ai_generate_openai", oa.wrapper.v>>), ext |-> <<"local_ai.ai_generate_openai">>]
         ELSE [res |-> OpenaiFailed, ext |-> <<"local_ai.ai_generate_openai">>]
    ELSE IF local_ai.present /\ "openai_generate" \in local_ai.attrs
    THEN IF oa.wrapper.kind = "returns"
         THEN [res |-> Ok(<<"local_ai.openai_generate", oa.wrapper.v>>), ext |-> <<"local_ai.openai_generate">>]
         ELSE [res |-> OpenaiFailed, ext |-> <<"local_ai.openai_generate">>]
    ELSE IF ~OPENAI_API_KEY
    THEN [res |-> OpenaiFailed, ext |-> <<>>]
    ELSE IF oa.import = "raises"
    THEN [res |-> OpenaiFailed, ext |-> <<>>]
    ELSE CASE oa.primary = "choices" ->
                [res |-> Ok(<<"openai.chat.completions", 1>>), ext |-> <<"openai.chat.completions.create">>]
           [] oa.primary = "dict_choices" ->
                [res |-> Ok(<<"openai.chat.completions", 1>>), ext |-> <<"openai.chat.completions.create">>]
           [] oa.primary = "no_choices" ->
                [res |-> OpenaiFailed, ext |-> <<"openai.chat.completions.create">>]
           [] OTHER ->
                IF oa.legacy.kind = "returns"
                THEN [res |-> Ok(<<"openai.Completion", oa.legacy.v>>),
                      ext |-> <<"openai.chat.completions.create", "openai.Completion.create">>]
                ELSE [res |-> OpenaiFailed,
                      ext |-> <<"openai.chat.completions.create", "openai.Completion.create">>]

\* Mutant: "hi" and "hey" are looked for as substrings, as "hello" is.
simple_fallback_reply_Substring(prompt, utcnow, crypto) ==
    LET p == str_lower(prompt) IN
    IF str_in(KW_hello, p) \/ str_in(KW_hi, p) \/ str_in(KW_hey, p)
    THEN GreetingText
    ELSE IF str_in(KW_time, p)
    THEN ServerTime(utcnow)
    ELSE IF str_in(KW_health, p)
    THEN HealthText
    ELSE IF str_in(KW_crypto, p)
    THEN IF local_ai.present /\ "crypto_summary" \in local_ai.attrs /\ crypto.kind = "returns"
         THEN <<"local_ai.crypto_summary()", crypto.v>>
         ELSE CryptoText
    ELSE DefaultText

\* crypto: what local_ai.crypto_summary() does when it is called.
simple_fallback_reply(prompt, utcnow, crypto) ==
    LET p == str_lower(prompt) IN
    IF str_in(KW_hello, p) \/ str_strip(p) \in {KW_hi, KW_hey}
    THEN GreetingText
    ELSE IF str_in(KW_time, p)
    THEN ServerTime(utcnow)
    ELSE IF str_in(KW_health, p)
    THEN HealthText
    ELSE IF str_in(KW_crypto, p)
    THEN IF local_ai.present /\ "crypto_summary" \in local_ai.attrs /\ crypto.kind = "returns"
         THEN <<"local_ai.crypto_summary()", crypto.v>>
         ELSE CryptoText
    ELSE DefaultText

\* Mutant: the orchestrator reports the failure of the adapters.
FallbackResult_ReportsFailure(fallback) == Dict(FALSE, fallback, "all_adapters_failed", "")

\* The last statement of generate_ai_reply.
FallbackResult(fallback) == Ok(fallback)

\* ------------------------------------------------------------------ initial state
NoReq == [body |-> <<Missing, Missing>>, message |-> <<>>, user |-> "guest",
          voice |-> FALSE, prefer |-> "auto"]
NoOut == [status |-> 0, ok |-> FALSE, error |-> "", reply |-> Absent,
          has_audio |-> FALSE, audio |-> ""]
NotCalled == [kind |-> "not_called", v |-> 0]
NoFb == [utcnow |-> 0, crypto |-> NotCalled]
NoLine == [type |-> "", payload |-> [call |-> <<0, 0>>, data |-> <<>>], ts |-> 0]
NoFrame == [line |-> NoLine, fd |-> 0, file |-> "none", ret |-> "idle"]
NoHttp == [kind |-> "none", body |-> Err("")]
NoLoc == [call |-> NotCalled, chat_dict |-> FALSE]
NoOa == [wrapper |-> NotCalled, import |-> "none", primary |-> "none", legacy |-> NotCalled]
NoEnv == [fn |-> "none", http |-> NoHttp, loc |-> NoLoc, oa |-> NoOa]
NoDir == [exists |-> FALSE, files |-> {}]
EmptyDir == [exists |-> TRUE, files |-> {}]
NoPass == [listed |-> {}, victims |-> {}, removed |-> {}, raised |-> FALSE]

\* The book bootstrap_sample() adds to an empty store when book_platform is
\* imported (book_platform.py:118-132); its id stands for the uuid it drew.
DemoBook ==
    [id |-> 0, title |-> <<"D","a","w","n">>, author |-> <<"N","e","u","r","a">>,
     category |-> <<"a","n","i","m","e">>]

BookIds == 0..MaxBooks

\* books.json after the import on a new installation: {"books": {...},
\* "views": {}}; "books" keeps the order of insertion, a missing key of
\* "views" reads as 0.
FreshStore == [books |-> <<DemoBook>>, views |-> [i \in BookIds |-> 0]]

NoListing == [called |-> FALSE, args |-> <<>>, value |-> <<>>, known |-> {}]
NoHist == [adds |-> {DemoBook}, gets |-> [i \in BookIds |-> 0], issued |-> 0, lookups |-> 0]

\* The book store as the import left it.
InitBookStore ==
    /\ books_json = FreshStore
    /\ lru = {}
    /\ book_data = [t \in Threads |-> FreshStore]
    /\ listing = NoListing
    /\ hist = NoHist

\* The gateway modules other than the one a specification follows: no admin
\* token, no backup, the book store as the import left it.
InitPlatform ==
    /\ NEURA_ADMIN_TOKEN = <<>>
    /\ backups = {}
    /\ InitBookStore

InitThreads ==
    /\ pc = [t \in Threads |-> "idle"]
    /\ handler = [t \in Threads |-> "none"]
    /\ req = [t \in Threads |-> NoReq]
    /\ res = [t \in Threads |-> Err("")]
    /\ calls = [t \in Threads |-> <<>>]
    /\ ext = [t \in Threads |-> <<>>]
    /\ fb = [t \in Threads |-> NoFb]
    /\ reply = [t \in Threads |-> Absent]
    /\ out = [t \in Threads |-> NoOut]
    /\ emits = [t \in Threads |-> <<>>]
    /\ raised = [t \in Threads |-> FALSE]
    /\ db_attempts = [t \in Threads |-> 0]
    /\ ev_attempts = [t \in Threads |-> 0]
    /\ ae = [t \in Threads |-> NoFrame]
    /\ ncalls = [t \in Threads |-> 0]

\* Nothing recorded yet: DATA_DIR exists (main.py:62), events.log does not.
InitStores ==
    /\ returned = {}
    /\ chat_logs = {}
    /\ events_tbl = {}
    /\ files = <<>>
    /\ events_log = 0
    /\ rotated = {}
    /\ next_ino = 1
    /\ now = 0
    /\ wpc = "loop"
    /\ _shutdown = FALSE
    /\ env = NoEnv
    /\ audio = NoDir
    /\ pass = NoPass

Init ==
    /\ AI_SERVICE_URL \in BOOLEAN
    /\ OPENAI_API_KEY \in BOOLEAN
    /\ VOICE_SERVICE_URL \in BOOLEAN
    /\ USE_SOCKETIO \in BOOLEAN
    /\ local_ai \in LocalModules
    /\ local_voice \in BOOLEAN
    /\ InitThreads
    /\ InitPlatform
    /\ InitStores

\* ------------------------------------------------------------------ generate_ai_reply
Set(f, t, v) == [f EXCEPT ![t] = v]
Called(fn, r) == [fn |-> fn, ok |-> r.res.ok, reply |-> IF r.res.ok THEN r.res.reply ELSE Absent]

\* Where generate_ai_reply returns to.
AfterGen(t) == IF handler[t] = "chat_endpoint" THEN "chat_save" ELSE "sock_event"

\* Mutant: the result is not returned on success, the chain goes on.
Attempt_NoReturn(t, fn, r, otherwise) ==
    /\ res' = Set(res, t, r.res)
    /\ calls' = Set(calls, t, Append(calls[t], Called(fn, r)))
    /\ ext' = Set(ext, t, ext[t] \o r.ext)
    /\ pc' = Set(pc, t, otherwise)
    /\ UNCHANGED <<config, env, books, backups, maint, fb, frame, recorder, chat_logs, fs, now, worker>>

\* An adapter was called and returned r: `if res.get("ok"): return res`.
Attempt(t, fn, r, otherwise) ==
    /\ res' = Set(res, t, r.res)
    /\ calls' = Set(calls, t, Append(calls[t], Called(fn, r)))
    /\ ext' = Set(ext, t, ext[t] \o r.ext)
    /\ pc' = Set(pc, t, IF r.res.ok THEN AfterGen(t) ELSE otherwise)
    /\ UNCHANGED <<config, env, books, backups, maint, fb, frame, recorder, chat_logs, fs, now, worker>>

Skip(t, otherwise) ==
    /\ pc' = Set(pc, t, otherwise)
    /\ UNCHANGED <<config, env, books, backups, maint, gen, frame, recorder, chat_logs, fs, now, worker>>

\* Mutant: the preference is not looked at.
GenMicroservice_IgnoresPrefer(t) ==
    /\ pc[t] = "gen_ms1"
    /\ IF AI_SERVICE_URL
       THEN \E http \in MsHttp :
                Attempt(t, "ai_call_microservice",
                        ai_call_microservice(req[t].message, req[t].user, http), "gen_local")
       ELSE Skip(t, "gen_local")

\* 1) Microservice
GenMicroservice(t) ==
    /\ pc[t] = "gen_ms1"
    /\ IF AI_SERVICE_URL /\ req[t].prefer \in {"microservice", "auto"}
       THEN \E http \in MsHttp :
                Attempt(t, "ai_call_microservice",
                        ai_call_microservice(req[t].message, req[t].user, http), "gen_local")
       ELSE Skip(t, "gen_local")

\* Mutant: the local module is not tried.
GenLocal_Skipped(t) ==
    /\ pc[t] = "gen_local"
    /\ Skip(t, "gen_openai")

\* 2) Local ai module
GenLocal(t) ==
    /\ pc[t] = "gen_local"
    /\ \E loc \in LocalEnv :
           Attempt(t, "ai_call_local_module",
                   ai_call_local_module(req[t].message, req[t].user, loc), "gen_openai")

\* 3) OpenAI direct
GenOpenai(t) ==
    /\ pc[t] = "gen_openai"
    /\ \E oa \in OpenaiEnv :
           Attempt(t, "ai_call_openai",
                   ai_call_openai(req[t].message, req[t].user, oa), "gen_ms2")

\* Mutant: the retry is made under the condition of the first attempt.
GenMicroserviceAgain_AnyPrefer(t) ==
    /\ pc[t] = "gen_ms2"
    /\ IF AI_SERVICE_URL /\ req[t].prefer \in {"microservice", "auto"}
       THEN \E http \in MsHttp :
                Attempt(t, "ai_call_microservice",
                        ai_call_microservice(req[t].message, req[t].user, http), "gen_fallback")
       ELSE Skip(t, "gen_fallback")

\* 4) Microservice again as last resort
GenMicroserviceAgain(t) ==
    /\ pc[t] = "gen_ms2"
    /\ IF AI_SERVICE_URL /\ req[t].prefer = "auto"
       THEN \E http \in MsHttp :
                Attempt(t, "ai_call_microservice",
                        ai_call_microservice(req[t].message, req[t].user, http), "gen_fallback")
       ELSE Skip(t, "gen_fallback")

\* simple_fallback_reply reaches local_ai.crypto_summary() for this prompt.
CryptoCalled(prompt) ==
    LET p == str_lower(prompt) IN
    /\ ~(str_in(KW_hello, p) \/ str_strip(p) \in {KW_hi, KW_hey})
    /\ ~str_in(KW_time, p)
    /\ ~str_in(KW_health, p)
    /\ str_in(KW_crypto, p)
    /\ local_ai.present /\ "crypto_summary" \in local_ai.attrs

\* simple_fallback_reply reaches datetime.utcnow() for this prompt.
ClockRead(prompt) ==
    LET p == str_lower(prompt) IN
    /\ ~(str_in(KW_hello, p) \/ str_strip(p) \in {KW_hi, KW_hey})
    /\ str_in(KW_time, p)

\* 5) Simple fallback.  utcnow is the clock when it is read: not before the
\* last reading.
GenFallback(t) ==
    /\ pc[t] = "gen_fallback"
    /\ \E crypto \in IF CryptoCalled(req[t].message) THEN CallOutcomes ELSE {NotCalled},
          utcnow \in IF ClockRead(req[t].message) THEN now..MaxClock ELSE {now} :
           /\ res' = Set(res, t, FallbackResult(simple_fallback_reply(req[t].message, utcnow, crypto)))
           /\ fb' = Set(fb, t, [utcnow |-> utcnow, crypto |-> crypto])
           /\ ext' = Set(ext, t, IF crypto = NotCalled THEN ext[t]
                                 ELSE Append(ext[t], "local_ai.crypto_summary"))
           /\ now' = utcnow
    /\ calls' = Set(calls, t, Append(calls[t], [fn |-> "simple_fallback_reply", ok |-> TRUE, reply |-> Absent]))
    /\ pc' = Set(pc, t, AfterGen(t))
    /\ UNCHANGED <<config, env, books, backups, maint, frame, recorder, chat_logs, fs, worker>>

\* ------------------------------------------------------------------ event recorder
\* The text json.dumps(payload) + "\n" as the chunks one write puts in the
\* file: the JSON object, then the newline.
Serialize(line) == << [kind |-> "json", obj |-> line], [kind |-> "nl", obj |-> line] >>

\* Mutant: the file is opened "w" and the write replaces its content.
WriteAppend_Truncate(content, text) == text

\* One physical write of file object f (opened "a": O_APPEND): the text goes
\* to the end of the inode the descriptor refers to, whatever its name is now.
WriteAppend(content, text) == content \o text

\* append_event(event_type, payload) is entered: the line is built
\* (main.py:224) and append_event_file is called.
EnterAppendEvent(t, event_type, data, ret) ==
    /\ ncalls' = Set(ncalls, t, ncalls[t] + 1)
    /\ ae' = Set(ae, t, [line |-> [type |-> event_type,
                                   payload |-> [call |-> <<t, ncalls[t] + 1>>, data |-> data],
                                   ts |-> now],
                         fd |-> 0, file |-> "none", ret |-> ret])
    /\ ev_attempts' = Set(ev_attempts, t, ev_attempts[t] + 1)

\* open(path, "a"): the file is created when it does not exist; or open raises
\* and append_event_file logs and returns.
AeOpen(t) ==
    /\ pc[t] = "ae_open"
    /\ \/ /\ events_log # 0
          /\ ae' = Set(ae, t, [ae[t] EXCEPT !.fd = events_log])
          /\ pc' = Set(pc, t, "ae_write")
          /\ UNCHANGED <<fs, returned>>
       \/ /\ events_log = 0
          /\ files' = Append(files, <<>>)
          /\ events_log' = next_ino
          /\ next_ino' = next_ino + 1
          /\ ae' = Set(ae, t, [ae[t] EXCEPT !.fd = next_ino])
          /\ pc' = Set(pc, t, "ae_write")
          /\ UNCHANGED <<rotated, returned>>
       \/ /\ ae' = Set(ae, t, [ae[t] EXCEPT !.file = "failed"])
          /\ returned' = returned \cup {[line |-> ae[t].line, written |-> FALSE]}
          /\ pc' = Set(pc, t, "ae_db")
          /\ UNCHANGED fs
    /\ UNCHANGED <<config, env, books, backups, maint, gen, frame, ncalls, events_tbl, chat_logs, now, worker>>

\* f.write(...) and the close of the with block, which flushes the text in
\* one write; or the write raises and append_event_file logs and returns.
AeWrite(t) ==
    /\ pc[t] = "ae_write"
    /\ \/ /\ files' = [files EXCEPT ![ae[t].fd] = WriteAppend(@, Serialize(ae[t].line))]
          /\ ae' = Set(ae, t, [ae[t] EXCEPT !.file = "ok"])
          /\ returned' = returned \cup {[line |-> ae[t].line, written |-> TRUE]}
       \/ /\ ae' = Set(ae, t, [ae[t] EXCEPT !.file = "failed"])
          /\ returned' = returned \cup {[line |-> ae[t].line, written |-> FALSE]}
          /\ UNCHANGED files
    /\ pc' = Set(pc, t, "ae_db")
    /\ UNCHANGED <<config, env, books, backups, maint, gen, frame, ncalls, events_tbl, chat_logs,
                   events_log, rotated, next_ino, now, worker>>

\* Mutant: an insert that raises is not caught.
AeDb_Surfaces(t) ==
    /\ pc[t] = "ae_db"
    /\ \/ /\ events_tbl' = events_tbl \cup {[type |-> ae[t].line.type, payload |-> ae[t].line.payload]}
          /\ pc' = Set(pc, t, ae[t].ret)
          /\ UNCHANGED raised
       \/ /\ raised' = Set(raised, t, TRUE)
          /\ pc' = Set(pc, t, "done")
          /\ UNCHANGED events_tbl
    /\ ae' = Set(ae, t, NoFrame)
    /\ UNCHANGED <<config, env, books, backups, maint, gen, handler, req, reply, out, emits, db_attempts, ev_attempts,
                   ncalls, returned, chat_logs, fs, now, worker>>

\* append_event_db: the insert commits, or it raises and is logged.
\* append_event then returns to its caller, normally in both cases.
AeDb(t) ==
    /\ pc[t] = "ae_db"
    /\ \/ events_tbl' = events_tbl \cup {[type |-> ae[t].line.type, payload |-> ae[t].line.payload]}
       \/ UNCHANGED events_tbl
    /\ ae' = Set(ae, t, NoFrame)
    /\ pc' = Set(pc, t, ae[t].ret)
    /\ UNCHANGED <<config, env, books, backups, maint, gen, frame, ncalls, returned, chat_logs, fs, now, worker>>

\* ------------------------------------------------------------------ POST /chat
PreferFields == {"<missing>", "microservice", "local"}

\* The (message, prompt) fields of the bodies the requests are drawn from.
MessageFields ==
    {<<m, Missing>> : m \in Prompts \cup {Missing}}
        \cup { <<Missing, <<>> >>, << <<>>, <<>> >>, << <<>>, P_Hi>> }
ChatBodies == [fields : MessageFields, voice : BOOLEAN, prefer : PreferFields]

\* body.get("prefer", "auto")
GetPrefer(f) == IF f = "<missing>" THEN "auto" ELSE f

\* The response built at main.py:396.
ChatOut(r) ==
    [status |-> 200, ok |-> TRUE, error |-> "", reply |-> r, has_audio |-> FALSE, audio |-> ""]

\* Mutant: the rejected request is recorded in chat_logs before the 400.
chat_endpoint_LogsRejected(t) ==
    /\ pc[t] = "idle"
    /\ \E body \in ChatBodies :
          LET message == Or(Or(body.fields[1], body.fields[2]), <<>>) IN
          /\ req' = Set(req, t, [body |-> body.fields, message |-> message, user |-> "guest",
                                 voice |-> body.voice, prefer |-> GetPrefer(body.prefer)])
          /\ IF ~Truthy(message)
             THEN /\ out' = Set(out, t, [NoOut EXCEPT !.status = 400, !.error = "empty_message"])
                  /\ chat_logs' = chat_logs \cup {[id |-> Cardinality(chat_logs) + 1,
                                                    user |-> "guest", prompt |-> message,
                                                    response |-> Absent]}
                  /\ pc' = Set(pc, t, "done")
             ELSE /\ pc' = Set(pc, t, "gen_ms1")
                  /\ UNCHANGED <<out, chat_logs>>
    /\ handler' = Set(handler, t, "chat_endpoint")
    /\ UNCHANGED <<config, env, books, backups, maint, gen, reply, emits, raised, db_attempts, ev_attempts,
                   recorder, fs, now, worker>>

\* The request is parsed and validated (main.py:369-376).
chat_endpoint(t) ==
    /\ pc[t] = "idle"
    /\ \E body \in ChatBodies :
          LET message == Or(Or(body.fields[1], body.fields[2]), <<>>) IN
          /\ req' = Set(req, t, [body |-> body.fields, message |-> message, user |-> "guest",
                                 voice |-> body.voice, prefer |-> GetPrefer(body.prefer)])
          /\ IF ~Truthy(message)
             THEN /\ out' = Set(out, t, [NoOut EXCEPT !.status = 400, !.error = "empty_message"])
                  /\ pc' = Set(pc, t, "done")
             ELSE /\ pc' = Set(pc, t, "gen_ms1")
                  /\ UNCHANGED out
    /\ handler' = Set(handler, t, "chat_endpoint")
    /\ UNCHANGED <<config, env, books, backups, maint, gen, reply, emits, raised, db_attempts, ev_attempts,
                   recorder, chat_logs, fs, now, worker>>

\* Mutant: the default text is used whatever the result holds.
GetReply_Default(r, default) == default

\* res.get("reply", default)
GetReply(r, default) == IF r.reply = Absent THEN default ELSE r.reply

\* Mutant: a commit that raises is not caught and ends the request.
ChatSave_Surfaces(t) ==
    /\ pc[t] = "chat_save"
    /\ LET r == GetReply(res[t], NoReplyHttp) IN
          /\ reply' = Set(reply, t, r)
          /\ \/ /\ chat_logs' = chat_logs \cup {[id |-> Cardinality(chat_logs) + 1, user |-> req[t].user,
                                                    prompt |-> req[t].message, response |-> r]}
                /\ EnterAppendEvent(t, "ai_query", <<req[t].user, req[t].message>>, "chat_tts")
                /\ pc' = Set(pc, t, "ae_open")
                /\ UNCHANGED <<out, raised>>
             \/ /\ raised' = Set(raised, t, TRUE)
                /\ out' = Set(out, t, [NoOut EXCEPT !.status = 500])
                /\ pc' = Set(pc, t, "done")
                /\ UNCHANGED <<chat_logs, ae, ncalls, ev_attempts>>
    /\ db_attempts' = Set(db_attempts, t, db_attempts[t] + 1)
    /\ UNCHANGED <<config, env, books, backups, maint, gen, handler, req, emits,
                   returned, events_tbl, fs, now, worker>>

\* reply is read, the ChatLog row is committed (or the commit raises and is
\* logged), and append_event("ai_query", ...) is called (main.py:381-394).
ChatSave(t) ==
    /\ pc[t] = "chat_save"
    /\ LET r == GetReply(res[t], NoReplyHttp) IN
          /\ reply' = Set(reply, t, r)
          /\ \/ chat_logs' = chat_logs \cup {[id |-> Cardinality(chat_logs) + 1, user |-> req[t].user,
                                                 prompt |-> req[t].message, response |-> r]}
             \/ UNCHANGED chat_logs
    /\ db_attempts' = Set(db_attempts, t, db_attempts[t] + 1)
    /\ EnterAppendEvent(t, "ai_query", <<req[t].user, req[t].message>>, "chat_tts")
    /\ pc' = Set(pc, t, "ae_open")
    /\ UNCHANGED <<config, env, books, backups, maint, gen, handler, req, out, emits, raised,
                   returned, events_tbl, fs, now, worker>>

\* The response is built, with the TTS call when voice is requested
\* (main.py:396-415).
ChatRespond(t) ==
    /\ pc[t] = "chat_tts"
    /\ IF ~req[t].voice
       THEN /\ out' = Set(out, t, ChatOut(reply[t]))
            /\ UNCHANGED ext
       ELSE IF VOICE_SERVICE_URL
       THEN \E http \in VoiceHttp :
               /\ out' = Set(out, t, [ChatOut(reply[t]) EXCEPT !.has_audio = TRUE,
                                                                !.audio = proxy_post(http).audio])
               /\ ext' = Set(ext, t, Append(ext[t], "POST VOICE_SERVICE_URL/speak"))
       ELSE IF local_voice
       THEN \E speak \in {"/static/audio/local.mp3", ""} :
               /\ out' = Set(out, t, [ChatOut(reply[t]) EXCEPT !.has_audio = TRUE, !.audio = speak])
               /\ ext' = Set(ext, t, Append(ext[t], "local_voice.speak_text"))
       ELSE /\ out' = Set(out, t, [ChatOut(reply[t]) EXCEPT !.has_audio = TRUE])
            /\ UNCHANGED ext
    /\ pc' = Set(pc, t, "done")
    /\ UNCHANGED <<config, env, books, backups, maint, res, calls, fb, handler, req, reply, emits, raised,
                   db_attempts, ev_attempts, recorder, chat_logs, fs, now, worker>>

\* ------------------------------------------------------------------ SocketIO "message"
SocketData == [prompt : Prompts \cup {Missing}, voice : BOOLEAN]
Emit(event, r) == [event |-> event, reply |-> r]

\* The handler is registered only when flask_socketio is there (main.py:418).
\* generate_ai_reply is called without prefer: its default is "microservice".
_on_message(t) ==
    /\ USE_SOCKETIO
    /\ pc[t] = "idle"
    /\ \E data \in SocketData :
          LET prompt == IF data.prompt = Missing THEN <<>> ELSE data.prompt IN
          /\ req' = Set(req, t, [body |-> <<Missing, data.prompt>>, message |-> prompt, user |-> "guest",
                                 voice |-> data.voice, prefer |-> "microservice"])
          /\ IF ~Truthy(prompt)
             THEN /\ emits' = Set(emits, t, <<Emit("error", Absent)>>)
                  /\ pc' = Set(pc, t, "done")
             ELSE /\ emits' = Set(emits, t, <<Emit("typing", Absent)>>)
                  /\ pc' = Set(pc, t, "gen_ms1")
    /\ handler' = Set(handler, t, "_on_message")
    /\ UNCHANGED <<config, env, books, backups, maint, gen, reply, out, raised, db_attempts, ev_attempts,
                   recorder, chat_logs, fs, now, worker>>

\* reply is read and append_event("ai_query", ...) is called (main.py:436-437).
SocketRecord(t) ==
    /\ pc[t] = "sock_event"
    /\ reply' = Set(reply, t, GetReply(res[t], NoReplySocket))
    /\ EnterAppendEvent(t, "ai_query", <<req[t].user, req[t].message>>, "sock_reply")
    /\ pc' = Set(pc, t, "ae_open")
    /\ UNCHANGED <<config, env, books, backups, maint, gen, handler, req, out, emits, raised, db_attempts,
                   returned, events_tbl, chat_logs, fs, now, worker>>

\* The reply is emitted, and the audio when voice is requested
\* (main.py:438-449).
SocketReply(t) ==
    /\ pc[t] = "sock_reply"
    /\ LET e == Append(emits[t], Emit("reply", reply[t])) IN
       IF ~req[t].voice
       THEN /\ emits' = Set(emits, t, e)
            /\ UNCHANGED ext
       ELSE IF VOICE_SERVICE_URL
       THEN \E http \in VoiceHttp :
               /\ emits' = Set(emits, t, Append(e, Emit("audio", <<proxy_post(http).audio, 0>>)))
               /\ ext' = Set(ext, t, Append(ext[t], "POST VOICE_SERVICE_URL/speak"))
       ELSE IF local_voice
       THEN \/ /\ emits' = Set(emits, t, Append(e, Emit("audio", <<"/static/audio/local.mp3", 0>>)))
               /\ ext' = Set(ext, t, Append(ext[t], "local_voice.speak_text"))
            \/ /\ emits' = Set(emits, t, e)
               /\ ext' = Set(ext, t, Append(ext[t], "local_voice.speak_text"))
       ELSE /\ emits' = Set(emits, t, e)
            /\ UNCHANGED ext
    /\ pc' = Set(pc, t, "done")
    /\ UNCHANGED <<config, env, books, backups, maint, res, calls, fb, handler, req, reply, out, raised,
                   db_attempts, ev_attempts, recorder, chat_logs, fs, now, worker>>

\* ------------------------------------------------------------------ POST /events
\* What request.get_json(silent=True) gives: None when there is no body or it
\* is not JSON, the parsed value otherwise.  truthy is Python's truthiness of
\* the value; type is the "type" key of an object, "<missing>" without it.
JsonValue(kind, truthy, type) == [kind |-> kind, truthy |-> truthy, type |-> type]
EmptyObject == JsonValue("object", FALSE, "<missing>")
EventBodies ==
    { JsonValue("none", FALSE, "<missing>"),
      EmptyObject,
      JsonValue("object", TRUE, "<missing>"),
      JsonValue("object", TRUE, "click"),
      JsonValue("array", FALSE, "<missing>"),
      JsonValue("array", TRUE, "<missing>"),
      JsonValue("string", TRUE, "<missing>") }

\* payload = request.get_json(silent=True) or {}; payload.get("type",
\* "custom") raises AttributeError on a value that is not a dict; otherwise
\* append_event is called (main.py:743-745).
ingest_event(t) ==
    /\ pc[t] = "idle"
    /\ \E body \in EventBodies :
          LET payload == IF body.truthy THEN body ELSE EmptyObject IN
          IF payload.kind # "object"
          THEN /\ raised' = Set(raised, t, TRUE)
               /\ out' = Set(out, t, [NoOut EXCEPT !.status = 500])
               /\ pc' = Set(pc, t, "done")
               /\ UNCHANGED <<ae, ncalls, ev_attempts>>
          ELSE /\ EnterAppendEvent(t, IF payload.type = "<missing>" THEN "custom" ELSE payload.type,
                                   <<>>, "ingest_ok")
               /\ pc' = Set(pc, t, "ae_open")
               /\ UNCHANGED <<raised, out>>
    /\ handler' = Set(handler, t, "ingest_event")
    /\ UNCHANGED <<config, env, books, backups, maint, gen, req, reply, emits, db_attempts,
                   returned, events_tbl, chat_logs, fs, now, worker>>

\* return jsonify({"ok": True}) (main.py:746)
IngestRespond(t) ==
    /\ pc[t] = "ingest_ok"
    /\ out' = Set(out, t, [NoOut EXCEPT !.status = 200, !.ok = TRUE])
    /\ pc' = Set(pc, t, "done")
    /\ UNCHANGED <<config, env, books, backups, maint, gen, handler, req, reply, emits, raised, db_attempts, ev_attempts,
                   recorder, chat_logs, fs, now, worker>>

Next ==
    \/ chat_endpoint(MainThread)
    \/ _on_message(MainThread)
    \/ GenMicroservice(MainThread)
    \/ GenLocal(MainThread)
    \/ GenOpenai(MainThread)
    \/ GenMicroserviceAgain(MainThread)
    \/ GenFallback(MainThread)
    \/ ChatSave(MainThread)
    \/ ChatRespond(MainThread)
    \/ SocketRecord(MainThread)
    \/ SocketReply(MainThread)
    \/ ingest_event(MainThread)
    \/ IngestRespond(MainThread)
    \/ AeOpen(MainThread)
    \/ AeWrite(MainThread)
    \/ AeDb(MainThread)

Spec == Init /\ [][Next]_vars

\* ------------------------------------------------------------------ the adapters on their own
\* An adapter is called directly, with collaborators that behave as e says:
\* its result is res, the external requests it made are ext.
AdapterCalled(t, fn, r, e) ==
    /\ pc[t] = "idle"
    /\ res' = Set(res, t, r.res)
    /\ ext' = Set(ext, t, r.ext)
    /\ calls' = Set(calls, t, <<Called(fn, r)>>)
    /\ env' = e
    /\ pc' = Set(pc, t, "done")
    /\ UNCHANGED <<config, books, backups, maint, fb, frame, recorder, chat_logs, fs, now,
                   worker>>

CallMicroservice(t) ==
    \E prompt \in Prompts, http \in MsHttp :
        AdapterCalled(t, "ai_call_microservice", ai_call_microservice(prompt, "guest", http),
                      [NoEnv EXCEPT !.fn = "ai_call_microservice", !.http = http])

CallLocalModule(t) ==
    \E prompt \in Prompts, loc \in LocalEnv :
        AdapterCalled(t, "ai_call_local_module", ai_call_local_module(prompt, "guest", loc),
                      [NoEnv EXCEPT !.fn = "ai_call_local_module", !.loc = loc])

CallOpenai(t) ==
    \E prompt \in Prompts, oa \in OpenaiEnv :
        AdapterCalled(t, "ai_call_openai", ai_call_openai(prompt, "guest", oa),
                      [NoEnv EXCEPT !.fn = "ai_call_openai", !.oa = oa])

InitAdapters ==
    /\ AI_SERVICE_URL \in BOOLEAN
    /\ OPENAI_API_KEY \in BOOLEAN
    /\ VOICE_SERVICE_URL = FALSE
    /\ USE_SOCKETIO = FALSE
    /\ local_ai \in LocalModules
    /\ local_voice = FALSE
    /\ InitThreads
    /\ InitPlatform
    /\ InitStores

NextAdapters ==
    \/ CallMicroservice(MainThread)
    \/ CallLocalModule(MainThread)
    \/ CallOpenai(MainThread)

SpecAdapters == InitAdapters /\ [][NextAdapters]_vars

\* ------------------------------------------------------------------ the fallback on its own
\* The prompts simple_fallback_reply is called with.
FallbackPrompts ==
    { <<>>,
      <<"H","E","L","L","O","!">>,
      P_Hi,
      <<"h","e","y">>,
      <<"t","h","i","s">>,
      <<"h","e","y"," ","y","o","u">>,
      <<"T","i","m","e","?">>,
      <<"h","e","a","l","t","h">>,
      <<"t","i","m","e"," ","h","e","a","l","t","h">>,
      <<"C","r","y","p","t","o">>,
      <<"c","r","y","p","t","o"," ","t","i","m","e">>,
      <<"o","k">> }

\* A thread calls simple_fallback_reply(prompt): the clock and
\* local_ai.crypto_summary() are read where the function reads them.
CallFallback(t) ==
    /\ pc[t] = "idle"
    /\ \E prompt \in FallbackPrompts :
       \E crypto \in IF CryptoCalled(prompt) THEN CallOutcomes ELSE {NotCalled},
          utcnow \in IF ClockRead(prompt) THEN now..MaxClock ELSE {now} :
           /\ req' = Set(req, t, [NoReq EXCEPT !.message = prompt])
           /\ reply' = Set(reply, t, simple_fallback_reply(prompt, utcnow, crypto))
           /\ fb' = Set(fb, t, [utcnow |-> utcnow, crypto |-> crypto])
           /\ ext' = Set(ext, t, IF crypto = NotCalled THEN ext[t]
                                 ELSE Append(ext[t], "local_ai.crypto_summary"))
           /\ now' = utcnow
    /\ calls' = Set(calls, t, <<[fn |-> "simple_fallback_reply", ok |-> TRUE, reply |-> Absent]>>)
    /\ pc' = Set(pc, t, "done")
    /\ UNCHANGED <<config, env, books, backups, maint, res, handler, out, emits, raised, db_attempts, ev_attempts,
                   recorder, chat_logs, fs, worker>>

InitFallback ==
    /\ AI_SERVICE_URL = FALSE
    /\ OPENAI_API_KEY = FALSE
    /\ VOICE_SERVICE_URL = FALSE
    /\ USE_SOCKETIO = FALSE
    /\ local_ai \in LocalModules
    /\ local_voice = FALSE
    /\ InitThreads
    /\ InitPlatform
    /\ InitStores

NextFallback == \E t \in Threads : CallFallback(t)

SpecFallback == InitFallback /\ [][NextFallback]_vars

\* ------------------------------------------------------------------ recorder threads
\* The append_event calls made so far by threads 1..n.
RECURSIVE TotalCalls(_)
TotalCalls(n) == IF n = 0 THEN 0 ELSE ncalls[n] + TotalCalls(n - 1)

\* Mutant: append_event starts with the insert and leaves the file out.
RecordCall_DbFirst(t) ==
    /\ pc[t] = "idle"
    /\ TotalCalls(NThreads) < MaxAppends
    /\ EnterAppendEvent(t, "custom", <<>>, "idle")
    /\ pc' = Set(pc, t, "ae_db")
    /\ UNCHANGED <<config, env, books, backups, maint, gen, handler, req, reply, out, emits, raised, db_attempts,
                   returned, events_tbl, chat_logs, fs, now, worker>>

\* A request thread calls append_event (ingest_event, books_add and the chat
\* handlers do): main.py:223-224.
RecordCall(t) ==
    /\ pc[t] = "idle"
    /\ TotalCalls(NThreads) < MaxAppends
    /\ EnterAppendEvent(t, "custom", <<>>, "idle")
    /\ pc' = Set(pc, t, "ae_open")
    /\ UNCHANGED <<config, env, books, backups, maint, gen, handler, req, reply, out, emits, raised, db_attempts,
                   returned, events_tbl, chat_logs, fs, now, worker>>

\* ------------------------------------------------------------------ background_worker
\* st_size, in lines: every line counts one unit.
st_size(content) == Len(content) \div 2

\* Mutant: the loop is `while True`.
WorkerLoop_IgnoresFlag ==
    /\ wpc = "loop"
    /\ wpc' = IF audio.exists THEN "prune" ELSE "exists"
    /\ UNCHANGED <<config, env, books, backups, maint, pc, gen, frame, recorder, chat_logs, fs, now, _shutdown>>

\* while not _shutdown.is_set(), and audio_dir.exists() of the pass that
\* starts.
WorkerLoop ==
    /\ wpc = "loop"
    /\ wpc' = IF _shutdown THEN "stopped" ELSE IF audio.exists THEN "prune" ELSE "exists"
    /\ UNCHANGED <<config, env, books, backups, maint, pc, gen, frame, recorder, chat_logs, fs, now, _shutdown>>

\* ev.exists(); the list and the slice of the prune are not used again.
WorkerExists ==
    /\ wpc = "exists"
    /\ wpc' = IF events_log # 0 THEN "stat" ELSE "sleep"
    /\ pass' = [NoPass EXCEPT !.raised = pass.raised]
    /\ UNCHANGED <<config, env, books, backups, audio, pc, gen, frame, recorder, chat_logs, fs, now, _shutdown>>

\* ev.stat().st_size > 5_000_000; a stat that raises ends the pass
\* (main.py:775).
WorkerStat ==
    /\ wpc = "stat"
    /\ \/ wpc' = IF st_size(files[events_log]) > RotateThreshold THEN "rename" ELSE "sleep"
       \/ wpc' = "sleep"
    /\ UNCHANGED <<config, env, books, backups, maint, pc, gen, frame, recorder, chat_logs, fs, now, _shutdown>>

\* Mutant: the rotated file has one fixed name.
Rename_FixedName(dst) ==
    /\ rotated' = {[ts |-> 0, ino |-> events_log, snap |-> files[events_log]]}
    /\ events_log' = 0
    /\ UNCHANGED <<files, next_ino>>

\* rename(2) of events.log to dst: dst names the inode, replacing a file
\* already named dst, and events.log names nothing.
Rename(dst) ==
    /\ rotated' = {r \in rotated : r.ts # dst}
                     \cup {[ts |-> dst, ino |-> events_log, snap |-> files[events_log]]}
    /\ events_log' = 0
    /\ UNCHANGED <<files, next_ino>>

\* dst = events_rotated_<int(time.time())>.log; ev.rename(dst), or the rename
\* raises and is passed over.
WorkerRename ==
    /\ wpc = "rename"
    /\ \/ Rename(now)
       \/ UNCHANGED fs
    /\ wpc' = "sleep"
    /\ UNCHANGED <<config, env, books, backups, maint, pc, gen, frame, recorder, chat_logs, now, _shutdown>>

\* time.sleep(60 or 300): the clock has moved on when the worker wakes.  The
\* clock is followed up to MaxClock; once the flag is set no pass follows and
\* the wake-up is taken whatever the clock is.
WorkerSleep ==
    /\ wpc = "sleep"
    /\ now < MaxClock \/ _shutdown
    /\ now' = IF now < MaxClock THEN now + 1 ELSE now
    /\ wpc' = "loop"
    /\ UNCHANGED <<config, env, books, backups, maint, pc, gen, frame, recorder, chat_logs, fs, _shutdown>>

InitLog ==
    /\ AI_SERVICE_URL = FALSE
    /\ OPENAI_API_KEY = FALSE
    /\ VOICE_SERVICE_URL = FALSE
    /\ USE_SOCKETIO = FALSE
    /\ local_ai = NoModule
    /\ local_voice = FALSE
    /\ InitThreads
    /\ InitPlatform
    /\ InitStores

NextLog ==
    \/ \E t \in Threads : RecordCall(t)
    \/ \E t \in Threads : AeOpen(t)
    \/ \E t \in Threads : AeWrite(t)
    \/ \E t \in Threads : AeDb(t)
    \/ WorkerLoop
    \/ WorkerExists
    \/ WorkerStat
    \/ WorkerRename
    \/ WorkerSleep

SpecLog == InitLog /\ [][NextLog]_vars

\* ------------------------------------------------------------------ maintenance and shutdown
\* The modification times a file of the audio directory can carry; two files
\* can carry the same one.
MTimes == {1, 2}

\* A file of the directory; the st_mtime of a file that is not .mp3 is never
\* read, and is left at one value.
AudioFile ==
    {f \in [name : 1..MaxAudio, mtime : MTimes, mp3 : BOOLEAN] :
        ~f.mp3 => \A m \in MTimes : f.mtime <= m}

\* A text-to-speech call leaves one more file in STATIC_DIR/audio (the .mp3 of
\* the reply, or a file of another kind), under a name not in use.
AudioWritten ==
    /\ audio.exists
    /\ Cardinality(audio.files) < MaxAudio
    /\ \E f \in AudioFile :
          /\ \A g \in audio.files : g.name # f.name
          /\ \A n \in 1..MaxAudio : n < f.name => \E g \in audio.files : g.name = n
          /\ audio' = [audio EXCEPT !.files = @ \cup {f}]
    /\ UNCHANGED <<config, env, books, backups, pass, pc, gen, frame, recorder, chat_logs, fs, now, worker>>

\* Mutant: the slice is files[200:], the newest files.
PruneChoices_Newest(mp3s) ==
    {V \in SUBSET mp3s :
        /\ Cardinality(V) = Cardinality(mp3s) - KeepAudio
        /\ \A v \in V : \A w \in mp3s \ V : v.mtime >= w.mtime}

\* files[:len(files) - 200] of the list sorted by st_mtime: the slices the
\* sort can give, files of equal st_mtime standing in the order glob gave.
PruneChoices(mp3s) ==
    {V \in SUBSET mp3s :
        /\ Cardinality(V) = Cardinality(mp3s) - KeepAudio
        /\ \A v \in V : \A w \in mp3s \ V : v.mtime <= w.mtime}

\* Mutant: the pass has no `except Exception`; the exception ends the thread.
WorkerList_Uncaught ==
    /\ wpc = "prune"
    /\ \/ /\ pass' = [pass EXCEPT !.raised = TRUE]
          /\ wpc' = "stopped"
       \/ LET mp3s == {f \in audio.files : f.mp3} IN
          IF Cardinality(mp3s) > KeepAudio
          THEN /\ \E V \in PruneChoices(mp3s) :
                     pass' = [pass EXCEPT !.listed = mp3s, !.victims = V]
               /\ wpc' = "unlink"
          ELSE /\ pass' = [pass EXCEPT !.listed = mp3s]
               /\ wpc' = "exists"
    /\ UNCHANGED <<config, env, books, backups, audio, pc, gen, frame, recorder, chat_logs, fs, now, _shutdown>>

\* sorted(audio_dir.glob("*.mp3"), key=st_mtime) and the slice to unlink when
\* more than 200 are listed; or the listing or a stat raises, the pass is left
\* through `except Exception` and the worker goes to its sleep.
WorkerList ==
    /\ wpc = "prune"
    /\ \/ /\ pass' = [pass EXCEPT !.raised = TRUE]
          /\ wpc' = "sleep"
       \/ LET mp3s == {f \in audio.files : f.mp3} IN
          IF Cardinality(mp3s) > KeepAudio
          THEN /\ \E V \in PruneChoices(mp3s) :
                     pass' = [pass EXCEPT !.listed = mp3s, !.victims = V]
               /\ wpc' = "unlink"
          ELSE /\ pass' = [pass EXCEPT !.listed = mp3s]
               /\ wpc' = "exists"
    /\ UNCHANGED <<config, env, books, backups, audio, pc, gen, frame, recorder, chat_logs, fs, now, _shutdown>>

\* for f in files[:len(files)-200]: f.unlink(), an unlink that raises being
\* passed over.
WorkerUnlink ==
    /\ wpc = "unlink"
    /\ \E failed \in SUBSET pass.victims :
          /\ audio' = [audio EXCEPT !.files = @ \ (pass.victims \ failed)]
          /\ pass' = [pass EXCEPT !.removed = pass.victims \ failed]
    /\ wpc' = "exists"
    /\ UNCHANGED <<config, env, books, backups, pc, gen, frame, recorder, chat_logs, fs, now, _shutdown>>

\* shutdown(), registered with atexit: _shutdown.set()
shutdown ==
    /\ pc[MainThread] = "idle"
    /\ _shutdown' = TRUE
    /\ pc' = Set(pc, MainThread, "sd_join")
    /\ UNCHANGED <<config, env, books, backups, maint, gen, frame, recorder, chat_logs, fs, now, wpc>>

\* _bg_thread.join(timeout=2): returns when the worker has left its loop, or
\* after two seconds with the worker still in its pass or its sleep.
ShutdownJoin ==
    /\ pc[MainThread] = "sd_join"
    /\ pc' = Set(pc, MainThread, "exited")
    /\ UNCHANGED <<config, env, books, backups, maint, gen, frame, recorder, chat_logs, fs, now, worker>>

\* An events.log of n lines left by an earlier run of the gateway.
RECURSIVE OldLog(_)
OldLog(n) ==
    IF n = 0 THEN <<>>
    ELSE WriteAppend(OldLog(n - 1),
                     Serialize([type |-> "custom",
                                payload |-> [call |-> <<0, n>>, data |-> <<>>],
                                ts |-> 0]))

\* The gateway starts: static/audio exists or not, events.log is absent or
\* was left over the threshold by an earlier run.
InitWorker ==
    /\ AI_SERVICE_URL = FALSE
    /\ OPENAI_API_KEY = FALSE
    /\ VOICE_SERVICE_URL = FALSE
    /\ USE_SOCKETIO = FALSE
    /\ local_ai = NoModule
    /\ local_voice = FALSE
    /\ InitThreads
    /\ InitPlatform
    /\ returned = {}
    /\ chat_logs = {}
    /\ events_tbl = {}
    /\ \/ files = <<>> /\ events_log = 0 /\ next_ino = 1
       \/ files = <<OldLog(RotateThreshold + 1)>> /\ events_log = 1 /\ next_ino = 2
    /\ rotated = {}
    /\ now = 0
    /\ wpc = "loop"
    /\ _shutdown = FALSE
    /\ env = NoEnv
    /\ audio \in {NoDir, EmptyDir}
    /\ pass = NoPass

WorkerStep ==
    \/ WorkerLoop
    \/ WorkerList
    \/ WorkerUnlink
    \/ WorkerExists
    \/ WorkerStat
    \/ WorkerRename
    \/ WorkerSleep

NextWorker ==
    \/ AudioWritten
    \/ shutdown
    \/ ShutdownJoin
    \/ WorkerStep

\* The worker is a thread of its own: a step it can take is taken.
SpecWorker == InitWorker /\ [][NextWorker]_vars /\ WF_vars(WorkerStep)

\* ------------------------------------------------------------------ book_platform
\* The metadata add_book is called with: title, author and category as given.
BookMetadata ==
    { [title |-> <<"D","u","s","k">>, author |-> <<"N","e","u","r","a">>,
       category |-> <<"a","n","i","m","e">>],
      [title |-> <<"O","k">>, author |-> <<"J","o">>,
       category |-> <<"A","n","i","m","e">>] }

\* The (page, page_size, category, q) list_books is called with; None is
\* Missing.
ListArgs ==
    { <<1, 20, Missing, <<>> >>,
      <<1, 1, <<"A","n","i","m","e">>, <<"K","N">> >> }

\* The filters of list_books: `category` lowered and compared with the
\* stored category, `q` lowered and searched in title + author lowered.
Matches(b, category, q) ==
    /\ Truthy(category) => b.category = str_lower(category)
    /\ Truthy(q) => str_in(str_lower(q), str_lower(b.title \o b.author))

\* books[start:end]
Slice(s, start, end) ==
    IF start >= Len(s) \/ end <= start THEN <<>>
    ELSE SubSeq(s, start + 1, IF end < Len(s) THEN end ELSE Len(s))

\* The body of list_books on the store it read (book_platform.py:57-68).
ListOf(store, args) ==
    LET filtered == SelectSeq(store.books, LAMBDA b : Matches(b, args[3], args[4]))
        start == (args[1] - 1) * args[2]
    IN [books |-> Slice(filtered, start, start + args[2]),
        total |-> Len(filtered),
        page |-> args[1]]

\* list_books(page, page_size, category, q) under @lru_cache(maxsize=50): a
\* call with arguments seen before returns what the first call returned; a
\* new one reads the store under _lock, and its result is kept.  ListArgs
\* has fewer than 50 members: nothing is evicted.
list_books(t) ==
    /\ pc[t] = "idle"
    /\ \E args \in ListArgs :
          IF \E e \in lru : e.args = args
          THEN /\ listing' = [called |-> TRUE, args |-> args,
                              value |-> (CHOOSE e \in lru : e.args = args).value,
                              known |-> hist.adds]
               /\ UNCHANGED lru
          ELSE /\ listing' = [called |-> TRUE, args |-> args,
                              value |-> ListOf(books_json, args), known |-> hist.adds]
               /\ lru' = lru \cup {[args |-> args, value |-> ListOf(books_json, args)]}
    /\ UNCHANGED <<config, env, maint, backups, pc, gen, frame, recorder, chat_logs, fs, now,
                   worker, books_json, book_data, hist>>

\* add_book(metadata): data = _read(), the whole read under _lock; book_id =
\* make_id(), an id no other call drew.
add_book(t) ==
    /\ pc[t] = "idle"
    /\ hist.issued < MaxBooks
    /\ \E m \in BookMetadata :
          req' = Set(req, t, [id |-> hist.issued + 1, title |-> m.title,
                              author |-> m.author, category |-> m.category])
    /\ book_data' = Set(book_data, t, books_json)
    /\ hist' = [hist EXCEPT !.issued = @ + 1]
    /\ pc' = Set(pc, t, "add_write")
    /\ UNCHANGED <<config, env, maint, backups, gen, handler, reply, out, emits, raised,
                   db_attempts, ev_attempts, recorder, chat_logs, fs, now, worker,
                   books_json, lru, listing>>

\* books[book_id] = meta; _write(data), the whole write under _lock: the file
\* is replaced by the dict this call read, with the new book; log_action and
\* return.
AddWrite(t) ==
    /\ pc[t] = "add_write"
    /\ books_json' = [book_data[t] EXCEPT !.books = Append(@, req[t])]
    /\ hist' = [hist EXCEPT !.adds = @ \cup {req[t]}]
    /\ req' = Set(req, t, NoReq)
    /\ book_data' = Set(book_data, t, FreshStore)
    /\ pc' = Set(pc, t, "idle")
    /\ UNCHANGED <<config, env, maint, backups, gen, handler, reply, out, emits, raised,
                   db_attempts, ev_attempts, recorder, chat_logs, fs, now, worker, lru,
                   listing>>

\* get_book(book_id): data = _read(); None is returned for an id the store
\* does not hold.
get_book(t) ==
    /\ pc[t] = "idle"
    /\ hist.lookups < MaxGets
    /\ \E id \in BookIds :
          IF \E i \in 1..Len(books_json.books) : books_json.books[i].id = id
          THEN /\ req' = Set(req, t, [id |-> id])
               /\ book_data' = Set(book_data, t, books_json)
               /\ pc' = Set(pc, t, "get_write")
          ELSE UNCHANGED <<req, book_data, pc>>
    /\ hist' = [hist EXCEPT !.lookups = @ + 1]
    /\ UNCHANGED <<config, env, maint, backups, gen, handler, reply, out, emits, raised,
                   db_attempts, ev_attempts, recorder, chat_logs, fs, now, worker,
                   books_json, lru, listing>>

\* views[book_id] = views.get(book_id, 0) + 1; _write(data); return book.
GetWrite(t) ==
    /\ pc[t] = "get_write"
    /\ books_json' = [book_data[t] EXCEPT !.views[req[t].id] = @ + 1]
    /\ hist' = [hist EXCEPT !.gets[req[t].id] = @ + 1]
    /\ req' = Set(req, t, NoReq)
    /\ book_data' = Set(book_data, t, FreshStore)
    /\ pc' = Set(pc, t, "idle")
    /\ UNCHANGED <<config, env, maint, backups, gen, handler, reply, out, emits, raised,
                   db_attempts, ev_attempts, recorder, chat_logs, fs, now, worker, lru,
                   listing>>

InitBooks ==
    /\ AI_SERVICE_URL = FALSE
    /\ OPENAI_API_KEY = FALSE
    /\ VOICE_SERVICE_URL = FALSE
    /\ USE_SOCKETIO = FALSE
    /\ local_ai = NoModule
    /\ local_voice = FALSE
    /\ InitThreads
    /\ InitPlatform
    /\ InitStores

NextBooks ==
    \/ \E t \in Threads : list_books(t)
    \/ \E t \in Threads : add_book(t)
    \/ \E t \in Threads : AddWrite(t)
    \/ \E t \in Threads : get_book(t)
    \/ \E t \in Threads : GetWrite(t)

SpecBooks == InitBooks /\ [][NextBooks]_vars

\* ------------------------------------------------------------------ require_admin
Bearer == <<"B","e","a","r","e","r"," ">>
Secret == <<"s","3">>
Wrong == <<"s","4">>

\* What a request carries in the Authorization header and in admin_token;
\* <<>> is the empty str, which is also what .get gives for an absent one.
AdminTokens ==
    { <<>>, Secret, Wrong, Bearer, Bearer \o Secret, Bearer \o Wrong,
      Bearer \o Bearer \o Secret }

\* The values of the environment variable: unset, a token, a token that
\* starts with "Bearer ".
ConfiguredTokens == { <<>>, Secret, Bearer \o Secret }

\* str.startswith
startswith(s, prefix) ==
    Len(s) >= Len(prefix) /\ SubSeq(s, 1, Len(prefix)) = prefix

\* s.split(" ", 1)[1], for s with a space in it
AfterFirstSpace(s) ==
    LET i == CHOOSE k \in 1..Len(s) : s[k] = " " /\ \A j \in 1..(k - 1) : s[j] # " "
    IN SubSeq(s, i + 1, Len(s))

\* The token wrapper() compares (main.py:176-178).
PresentedToken(header, query) ==
    LET token == IF header # <<>> THEN header ELSE query
    IN IF startswith(token, Bearer) THEN AfterFirstSpace(token) ELSE token

Unauthorized == [NoOut EXCEPT !.status = 401, !.error = "unauthorized"]

\* Mutant: a request that presents no token is let through.
require_admin_EmptyPasses(t) ==
    /\ pc[t] = "idle"
    /\ \E header \in AdminTokens, query \in AdminTokens :
          LET token == PresentedToken(header, query) IN
          /\ req' = Set(req, t, [header |-> header, admin_token |-> query])
          /\ IF NEURA_ADMIN_TOKEN = <<>>
             THEN pc' = Set(pc, t, "admin_backup") /\ UNCHANGED out
             ELSE IF token # <<>> /\ token # NEURA_ADMIN_TOKEN
             THEN pc' = Set(pc, t, "done") /\ out' = Set(out, t, Unauthorized)
             ELSE pc' = Set(pc, t, "admin_backup") /\ UNCHANGED out
    /\ UNCHANGED <<config, env, books, backups, maint, gen, handler, reply, emits, raised,
                   db_attempts, ev_attempts, recorder, chat_logs, fs, now, worker>>

\* wrapper() of require_admin around admin_backup, for POST /admin/backup.
require_admin(t) ==
    /\ pc[t] = "idle"
    /\ \E header \in AdminTokens, query \in AdminTokens :
          LET token == PresentedToken(header, query) IN
          /\ req' = Set(req, t, [header |-> header, admin_token |-> query])
          /\ IF NEURA_ADMIN_TOKEN = <<>>
             THEN pc' = Set(pc, t, "admin_backup") /\ UNCHANGED out
             ELSE IF token # NEURA_ADMIN_TOKEN
             THEN pc' = Set(pc, t, "done") /\ out' = Set(out, t, Unauthorized)
             ELSE pc' = Set(pc, t, "admin_backup") /\ UNCHANGED out
    /\ UNCHANGED <<config, env, books, backups, maint, gen, handler, reply, emits, raised,
                   db_attempts, ev_attempts, recorder, chat_logs, fs, now, worker>>

\* admin_backup(): no_events when events.log is missing; else its content is
\* copied to backups/events_backup_<int(time.time())>.log, replacing a backup
\* of the same second; or the copy raises and the request ends with a 500.
admin_backup(t) ==
    /\ pc[t] = "admin_backup"
    /\ handler' = Set(handler, t, "admin_backup")
    /\ \/ /\ events_log = 0
          /\ out' = Set(out, t, [NoOut EXCEPT !.status = 200, !.error = "no_events"])
          /\ UNCHANGED <<backups, raised>>
       \/ /\ events_log # 0
          /\ backups' = {b \in backups : b.ts # now}
                            \cup {[ts |-> now, snap |-> files[events_log]]}
          /\ out' = Set(out, t, [NoOut EXCEPT !.status = 200, !.ok = TRUE])
          /\ UNCHANGED raised
       \/ /\ events_log # 0
          /\ raised' = Set(raised, t, TRUE)
          /\ out' = Set(out, t, [NoOut EXCEPT !.status = 500])
          /\ UNCHANGED backups
    /\ pc' = Set(pc, t, "done")
    /\ UNCHANGED <<config, env, books, maint, gen, req, reply, emits, db_attempts,
                   ev_attempts, recorder, chat_logs, fs, now, worker>>

\* The token is read from the environment at import (main.py:71); events.log
\* is absent or was left by earlier requests.
InitAdmin ==
    /\ AI_SERVICE_URL = FALSE
    /\ OPENAI_API_KEY = FALSE
    /\ VOICE_SERVICE_URL = FALSE
    /\ USE_SOCKETIO = FALSE
    /\ local_ai = NoModule
    /\ local_voice = FALSE
    /\ NEURA_ADMIN_TOKEN \in ConfiguredTokens
    /\ backups = {}
    /\ InitBookStore
    /\ InitThreads
    /\ returned = {}
    /\ chat_logs = {}
    /\ events_tbl = {}
    /\ \/ files = <<>> /\ events_log = 0 /\ next_ino = 1
       \/ files = <<OldLog(1)>> /\ events_log = 1 /\ next_ino = 2
    /\ rotated = {}
    /\ now = 0
    /\ wpc = "loop"
    /\ _shutdown = FALSE
    /\ env = NoEnv
    /\ audio = NoDir
    /\ pass = NoPass

NextAdmin ==
    \/ require_admin(MainThread)
    \/ admin_backup(MainThread)

SpecAdmin == InitAdmin /\ [][NextAdmin]_vars

\* ------------------------------------------------------------------ properties
\* generate_ai_reply has just returned to its caller.
GenReturned(t) == pc[t] \in {"chat_save", "sock_event"}

\* The thread is inside generate_ai_reply.
InGen(t) == pc[t] \in {"gen_ms1", "gen_local", "gen_openai", "gen_ms2", "gen_fallback"}

\* generate_ai_reply has run and returned in this request.
GenDone(t) == calls[t] # <<>> /\ ~InGen(t)

Adapters == {"ai_call_microservice", "ai_call_local_module", "ai_call_openai"}

\* The calls of adapter fn in the trace of thread t.
CallsOf(t, fn) == {i \in 1..Len(calls[t]) : calls[t][i].fn = fn}

C2_Original ==
    \A t \in Threads :
        GenReturned(t) /\ AI_SERVICE_URL
            /\ (\E i \in CallsOf(t, "ai_call_microservice") : calls[t][i].ok)
        => /\ res[t].ok
           /\ \A i \in 1..Len(calls[t]) : calls[t][i].fn = "ai_call_microservice"

\* C2 amended: a successful microservice call is the last call of
\* generate_ai_reply and its reply is what is returned; the fallback is never
\* invoked; the other adapters were invoked only when the successful call is
\* the retry under "auto", after the first attempt, the local module and the
\* provider all failed.
C2_Precedence ==
    \A t \in Threads :
        \A i \in CallsOf(t, "ai_call_microservice") :
            GenReturned(t) /\ calls[t][i].ok
            => /\ i = Len(calls[t])
               /\ res[t].ok /\ res[t].reply = calls[t][i].reply
               /\ res[t].reply \in {<<"microservice reply", 1>>, Absent}
               /\ CallsOf(t, "simple_fallback_reply") = {}
               /\ \/ i = 1
                  \/ /\ i = 4 /\ req[t].prefer = "auto"
                     /\ calls[t][1].fn = "ai_call_microservice"
                     /\ calls[t][2].fn = "ai_call_local_module"
                     /\ calls[t][3].fn = "ai_call_openai"
                     /\ \A j \in 1..3 : ~calls[t][j].ok

\* C2 witness: the first microservice attempt succeeded and the call returned.
C2_Witness ==
    \E t \in Threads :
        /\ GenReturned(t)
        /\ calls[t] = << [fn |-> "ai_call_microservice", ok |-> TRUE,
                          reply |-> <<"microservice reply", 1>>] >>

\* The local module exposes a function ai_call_local_module calls.
LocalUsable ==
    local_ai.present /\ local_ai.attrs \cap {"ai_generate", "generate_reply", "chat"} # {}

LocalReplies ==
    { <<"local_ai.ai_generate", 1>>, <<"local_ai.generate_reply", 1>>,
      <<"local_ai.chat()['reply']", 1>>, <<"str(local_ai.chat())", 1>> }

\* C3 as stated: with the microservice unconfigured and the local module
\* present, the reply returned is the local module's.
C3_Original ==
    \A t \in Threads :
        GenReturned(t) /\ ~AI_SERVICE_URL /\ local_ai.present
        => res[t].reply \in LocalReplies

\* C3 amended: with the microservice unconfigured and a local module that
\* exposes ai_generate, generate_reply or chat and whose call does not raise,
\* the local module is the only source called and its reply is returned.
C3_LocalReply ==
    \A t \in Threads :
        GenReturned(t) /\ ~AI_SERVICE_URL /\ LocalUsable
            /\ (\A i \in CallsOf(t, "ai_call_local_module") : calls[t][i].ok)
        => /\ Len(calls[t]) = 1
           /\ calls[t][1].fn = "ai_call_local_module"
           /\ res[t] = Ok(calls[t][1].reply)
           /\ res[t].reply \in LocalReplies

\* C3 witness: the local module answered with the microservice unconfigured.
C3_Witness ==
    \E t \in Threads :
        /\ GenReturned(t) /\ ~AI_SERVICE_URL /\ LocalUsable
        /\ res[t] = Ok(<<"local_ai.generate_reply", 1>>)

\* No adapter of this call returned ok.
AllAdaptersFailed(t) ==
    /\ GenDone(t)
    /\ \A i \in 1..Len(calls[t]) : calls[t][i].fn \in Adapters => ~calls[t][i].ok

NoAdapterConfigured == ~AI_SERVICE_URL /\ ~local_ai.present /\ ~OPENAI_API_KEY

\* C4: when every attempted adapter failed or is unconfigured, the result is
\* exactly {ok: true, reply: simple_fallback_reply(prompt)}, the chat endpoint
\* answers 200 with ok = true and that reply, and "hello" with no adapter
\* configured gets the greeting.
C4_Fallback ==
    \A t \in Threads :
        AllAdaptersFailed(t)
        => /\ res[t] = Ok(simple_fallback_reply(req[t].message, fb[t].utcnow, fb[t].crypto))
           /\ calls[t][Len(calls[t])].fn = "simple_fallback_reply"
           /\ handler[t] = "chat_endpoint" /\ pc[t] = "done"
              => out[t].status = 200 /\ out[t].ok /\ out[t].reply = res[t].reply
           /\ req[t].message = KW_hello /\ NoAdapterConfigured
              => res[t].reply = GreetingText

\* C4 witness: POST /chat with message "hello" and no adapter configured has
\* been answered.
C4_Witness ==
    \E t \in Threads :
        /\ handler[t] = "chat_endpoint" /\ pc[t] = "done"
        /\ req[t].body = <<KW_hello, Missing>> /\ NoAdapterConfigured
        /\ out[t].reply = GreetingText

\* A body field is missing or empty.
Empty(s) == s = Missing \/ s = <<>>

C6_OneChatLogWrite ==
    \A t \in Threads :
        pc[t] = "done" /\ Truthy(req[t].message)
        => db_attempts[t] = 1 /\ ev_attempts[t] >= 1

\* ------------------------------------------------------------------ the event log
\* The inodes a name refers to: events.log and the rotated files.
LogInodes == ({events_log} \ {0}) \cup {r.ino : r \in rotated}

\* How often the JSON text of line l is in content.
Occurrences(l, content) ==
    Cardinality({i \in 1..Len(content) : content[i] = [kind |-> "json", obj |-> l]})

\* How often it is in the named files among inodes 1..n.
RECURSIVE OccIn(_, _)
OccIn(l, n) ==
    IF n = 0 THEN 0
    ELSE (IF n \in LogInodes THEN Occurrences(l, files[n]) ELSE 0) + OccIn(l, n - 1)

\* The number of lines in the named files among inodes 1..n.
RECURSIVE LineCount(_)
LineCount(n) ==
    IF n = 0 THEN 0
    ELSE (IF n \in LogInodes THEN st_size(files[n]) ELSE 0) + LineCount(n - 1)

\* content is whole lines: each JSON text is followed by its own newline.
WholeLines(content) ==
    /\ Len(content) % 2 = 0
    /\ \A i \in 1..Len(content) :
          IF i % 2 = 1
          THEN content[i].kind = "json" /\ content[i + 1] = [kind |-> "nl", obj |-> content[i].obj]
          ELSE content[i].kind = "nl"

Prefix(a, b) == Len(a) <= Len(b) /\ SubSeq(b, 1, Len(a)) = a

\* What holds of the log whatever fails: every file is whole lines, no inode
\* has lost its name, and a line is in the log once when its write was done
\* and not at all when the write or the open raised.
LogIntegrity ==
    /\ \A i \in 1..(next_ino - 1) : i \in LogInodes /\ WholeLines(files[i])
    /\ \A e \in returned : OccIn(e.line, next_ino - 1) = IF e.written THEN 1 ELSE 0

\* C7 as stated: when the N append_event calls made have all returned, the
\* event log (events.log and the rotated files) holds exactly N whole lines,
\* one per call.
C7_ExactlyNLines ==
    (\A t \in Threads : pc[t] = "idle")
    => /\ LineCount(next_ino - 1) = TotalCalls(NThreads)
       /\ \A i \in LogInodes : WholeLines(files[i])
       /\ \A e \in returned : OccIn(e.line, next_ino - 1) = 1

\* C8 as stated: once events.log is over the threshold, the next write goes
\* to a fresh file: no write is about to land in a file that is over it.
C8_Original ==
    \A t \in Threads :
        pc[t] = "ae_write" => st_size(files[ae[t].fd]) <= RotateThreshold

\* C8 amended, the state part: a rotated file was over the threshold when it
\* was renamed, still holds every line it had then, unmodified and in place,
\* is not events.log, and no rotated file has been replaced by a later one.
C8_Preserved ==
    /\ \A r \in rotated :
          /\ Prefix(r.snap, files[r.ino])
          /\ st_size(r.snap) > RotateThreshold
          /\ r.ino # events_log
    /\ \A i \in 1..(next_ino - 1) : i \in LogInodes

\* C8 amended, the step part: a rename leaves events.log naming nothing and
\* the renamed file and the earlier rotated files as they were; an open of
\* events.log made after it creates an empty file that is no rotated file.
C8_FreshAfterRename ==
    /\ rotated' # rotated
       => /\ events_log' = 0
          /\ rotated \subseteq rotated'
          /\ \E r \in rotated' \ rotated : r.ino = events_log /\ files'[r.ino] = files[r.ino]
    /\ \A t \in Threads :
          pc[t] = "ae_open" /\ pc'[t] = "ae_write"
          => /\ ae'[t].fd = events_log'
             /\ events_log = 0
                => files'[ae'[t].fd] = <<>> /\ \A r \in rotated' : r.ino # ae'[t].fd

\* C8 amended: once the background worker's pass has renamed an events.log
\* that is over the threshold, the next recorder write that opens events.log
\* goes to a fresh file and the previous file is preserved intact under its
\* new name.
C8_Rotation == []C8_Preserved /\ [][C8_FreshAfterRename]_vars

\* C8 witness: the log was rotated and a later write is in a fresh events.log.
C8_Witness ==
    /\ rotated # {}
    /\ events_log # 0
    /\ files[events_log] # <<>>

\* C9 as stated: the line of every completed append is exactly once, whole,
\* in events.log or in one rotated file.
C9_NoEventLost ==
    \A e \in returned :
        /\ OccIn(e.line, next_ino - 1) = 1
        /\ \A i \in LogInodes : WholeLines(files[i])

\* C10 as stated: when the append to the event log file failed, append_event
\* signals it to its caller: it does not go on and return normally.
C10_CallerInformed ==
    \A t \in Threads : ae[t].file = "failed" => raised[t]

\* ------------------------------------------------------------------ best-effort persistence
\* A validated POST /chat has been answered.
ChatAnswered(t) ==
    handler[t] = "chat_endpoint" /\ pc[t] = "done" /\ Truthy(req[t].message)

\* C11: whatever the ChatLog commit, the file append and the events insert of
\* a chat request do, no exception leaves the handler, the response is 200
\* {ok: true, reply} with the reply read from the orchestrator's result, and
\* each of the three writes is attempted at most once in the request.
C11_BestEffort ==
    \A t \in Threads :
        /\ db_attempts[t] <= 1 /\ ev_attempts[t] <= 1
        /\ handler[t] = "chat_endpoint"
           => /\ Cardinality(returned) <= ev_attempts[t]
              /\ Cardinality(chat_logs) <= db_attempts[t]
              /\ Cardinality(events_tbl) <= ev_attempts[t]
              /\ ~raised[t]
        /\ ChatAnswered(t)
           => /\ out[t].status = 200 /\ out[t].ok /\ out[t].error = ""
              /\ out[t].reply = GetReply(res[t], NoReplyHttp)
              /\ db_attempts[t] = 1 /\ ev_attempts[t] = 1

\* C11 witness: the commit, the file append and the insert all failed and the
\* request was answered.
C11_Witness ==
    \E t \in Threads :
        /\ ChatAnswered(t) /\ out[t].ok
        /\ chat_logs = {} /\ events_tbl = {}
        /\ \E e \in returned : ~e.written

\* ------------------------------------------------------------------ text to speech
\* C12 as stated: the response of a chat request carries an audio field only
\* when voice was requested and the TTS collaborator returned an audio
\* reference; when the TTS call failed or there is no collaborator the field
\* is omitted, and the response is ok = true in every case.
C12_AudioOmitted ==
    \A t \in Threads :
        ChatAnswered(t)
        => /\ out[t].ok /\ out[t].status = 200
           /\ out[t].has_audio => req[t].voice /\ out[t].audio # ""

\* ------------------------------------------------------------------ event ingestion
\* C13 as stated: POST /events is answered {ok: true} for every request body
\* (none, a JSON object, JSON that is not an object) and whatever the file
\* append and the insert do.
C13_AlwaysOk ==
    \A t \in Threads :
        handler[t] = "ingest_event" /\ pc[t] = "done"
        => out[t].status = 200 /\ out[t].ok /\ ~raised[t]

\* ------------------------------------------------------------------ adapter contract
\* The adapter fn was called on its own and has returned.
AdapterReturned(t, fn) == pc[t] = "done" /\ env.fn = fn

\* local_ai has one of the OpenAI wrappers ai_call_openai looks for.
Wrapped == local_ai.present /\ local_ai.attrs \cap {"ai_generate_openai", "openai_generate"} # {}

\* Something the adapter relies on is missing or failed in this call.
AdapterFailure ==
    CASE env.fn = "ai_call_microservice" ->
            ~AI_SERVICE_URL \/ env.http.kind = "error"
      [] env.fn = "ai_call_local_module" ->
            ~LocalUsable \/ env.loc.call = Raises
      [] env.fn = "ai_call_openai" ->
            IF Wrapped THEN env.oa.wrapper = Raises
            ELSE \/ ~OPENAI_API_KEY
                 \/ env.oa.import = "raises"
                 \/ env.oa.primary \in {"raises", "bad_content"} /\ env.oa.legacy = Raises
      [] OTHER -> FALSE

FailureReasons ==
    {"no_microservice", "str(e)", "no_local_ai", "local_ai_failed", "openai_failed_or_not_configured"}

\* C14: an adapter called with any configuration and any behaviour of its
\* collaborators returns a dict, no exception leaves it; when its
\* configuration is missing or a collaborator fails, what it returns is
\* {ok: false, error: reason}.
C14_NeverRaises ==
    \A t \in Threads :
        pc[t] = "done" /\ env.fn \in Adapters
        => /\ res[t] # Raised
           /\ AdapterFailure => ~res[t].ok /\ res[t].reply = Absent /\ res[t].error \in FailureReasons

\* C14 witness: the POST to the microservice raised and the adapter returned
\* the failure dict.
C14_Witness ==
    \E t \in Threads :
        /\ AdapterReturned(t, "ai_call_microservice")
        /\ AI_SERVICE_URL /\ env.http = HttpError
        /\ res[t] = Err("str(e)")

\* C17: called with AI_SERVICE_URL unset, ai_call_microservice returns
\* {ok: false, error: "no_microservice"}, and called with no local module
\* imported, ai_call_local_module returns {ok: false, error: "no_local_ai"};
\* neither raises and neither makes an external call.
C17_NotConfigured ==
    \A t \in Threads :
        /\ AdapterReturned(t, "ai_call_microservice") /\ ~AI_SERVICE_URL
           => res[t] = Err("no_microservice") /\ ext[t] = <<>>
        /\ AdapterReturned(t, "ai_call_local_module") /\ ~local_ai.present
           => res[t] = Err("no_local_ai") /\ ext[t] = <<>>

\* C17 witness: ai_call_microservice was called with AI_SERVICE_URL unset and
\* a network that would have answered.
C17_Witness ==
    \E t \in Threads :
        /\ AdapterReturned(t, "ai_call_microservice") /\ ~AI_SERVICE_URL
        /\ env.http = HttpJson(Ok(<<"microservice reply", 1>>))

\* ai_call_openai reached the direct call of the openai package.
Direct == ~Wrapped /\ OPENAI_API_KEY /\ env.oa.import = "ok"

\* C18 as stated: ai_call_openai makes the primary request and, whenever that
\* yields no reply, exactly one legacy request; it makes at most two
\* requests; without a credential, or when both requests fail, it returns
\* {ok: false, error: "openai_failed_or_not_configured"}.
C18_LegacyRetry ==
    \A t \in Threads :
        AdapterReturned(t, "ai_call_openai")
        => /\ Len(ext[t]) <= 2
           /\ ~Wrapped /\ ~OPENAI_API_KEY => res[t] = OpenaiFailed /\ ext[t] = <<>>
           /\ Direct
              => /\ ext[t][1] = "openai.chat.completions.create"
                 /\ IF env.oa.primary \in {"choices", "dict_choices"}
                    THEN res[t].ok /\ Len(ext[t]) = 1
                    ELSE /\ ext[t] = <<"openai.chat.completions.create", "openai.Completion.create">>
                         /\ res[t].ok <=> env.oa.legacy # Raises
                 /\ ~res[t].ok => res[t] = OpenaiFailed

\* ------------------------------------------------------------------ the order of the sources
\* The thread is in, or has left, generate_ai_reply.
InOrAfterGen(t) == handler[t] \in {"chat_endpoint", "_on_message"}

\* C15: in one call of generate_ai_reply the microservice is attempted at
\* most twice, and twice only under preference "auto", as first and as fourth
\* attempt; with "auto" and the microservice configured, once the first
\* attempt, the local module and the provider have failed the microservice is
\* attempted again, and a success of that attempt is what is returned, the
\* fallback not being called.
C15_RetryOnce ==
    \A t \in Threads :
        InOrAfterGen(t)
        => /\ Cardinality(CallsOf(t, "ai_call_microservice")) <= 2
           /\ Cardinality(CallsOf(t, "ai_call_microservice")) = 2
              => req[t].prefer = "auto" /\ CallsOf(t, "ai_call_microservice") = {1, 4}
           /\ /\ GenDone(t) /\ AI_SERVICE_URL /\ req[t].prefer = "auto"
              /\ Len(calls[t]) >= 3 /\ \A i \in 1..3 : ~calls[t][i].ok
              => /\ Len(calls[t]) >= 4
                 /\ calls[t][4].fn = "ai_call_microservice"
                 /\ calls[t][4].ok
                    => /\ Len(calls[t]) = 4
                       /\ res[t].ok /\ res[t].reply = calls[t][4].reply
                       /\ CallsOf(t, "simple_fallback_reply") = {}

\* C15 witness: the retry succeeded after the three other attempts failed.
C15_Witness ==
    \E t \in Threads :
        /\ GenReturned(t) /\ req[t].prefer = "auto"
        /\ Len(calls[t]) = 4
        /\ ~calls[t][1].ok /\ calls[t][1].fn = "ai_call_microservice"
        /\ calls[t][4].ok /\ calls[t][4].fn = "ai_call_microservice"
        /\ res[t] = Ok(<<"microservice reply", 1>>)

\* The place of the i-th call of thread t in the fixed order.
Rank(t, i) ==
    CASE calls[t][i].fn = "ai_call_microservice" -> IF i = 1 THEN 1 ELSE 4
      [] calls[t][i].fn = "ai_call_local_module" -> 2
      [] calls[t][i].fn = "ai_call_openai" -> 3
      [] OTHER -> 5

MicroserviceFirst(t) == AI_SERVICE_URL /\ req[t].prefer \in {"microservice", "auto"}

\* C16: the sources are attempted in the order microservice, local module,
\* provider, microservice retry, fallback; a source is attempted only after
\* every earlier attempt returned ok = false, none but the microservice is
\* passed over; the microservice is attempted first exactly when it is
\* configured and the preference is "microservice" or "auto", and under any
\* other preference it is never called.
C16_FixedOrder ==
    \A t \in Threads :
        InOrAfterGen(t)
        => /\ \A i \in 1..Len(calls[t]) :
                 /\ i < Len(calls[t]) => ~calls[t][i].ok /\ Rank(t, i) < Rank(t, i + 1)
                 /\ calls[t][i].fn = "ai_call_openai"
                    => i > 1 /\ calls[t][i - 1].fn = "ai_call_local_module"
                 /\ calls[t][i].fn = "simple_fallback_reply"
                    => i > 2 /\ Rank(t, i - 1) \in {3, 4}
           /\ calls[t] # <<>>
              => calls[t][1].fn = IF MicroserviceFirst(t) THEN "ai_call_microservice"
                                  ELSE "ai_call_local_module"
           /\ ~MicroserviceFirst(t) => CallsOf(t, "ai_call_microservice") = {}

\* C16 witness: under preference "local" with the microservice configured the
\* local module, the provider and the fallback were attempted, in that order.
C16_Witness ==
    \E t \in Threads :
        /\ GenReturned(t) /\ AI_SERVICE_URL /\ req[t].prefer = "local"
        /\ Len(calls[t]) = 3
        /\ calls[t][1].fn = "ai_call_local_module"
        /\ calls[t][2].fn = "ai_call_openai"
        /\ calls[t][3].fn = "simple_fallback_reply"

\* ------------------------------------------------------------------ the two sinks
\* The row append_event_db inserts for a line.
EventRow(line) == [type |-> line.type, payload |-> line.payload]

\* C19: when a thread is at the insert of append_event, the append of the
\* same line to the file has been attempted and has finished (the line is in
\* the log when the write was done), and every row of table events belongs
\* to a call whose file append had finished before.
C19_FileBeforeDb ==
    /\ \A t \in Threads :
          pc[t] = "ae_db"
          => /\ ae[t].file \in {"ok", "failed"}
             /\ [line |-> ae[t].line, written |-> ae[t].file = "ok"] \in returned
             /\ ae[t].file = "ok" => OccIn(ae[t].line, next_ino - 1) = 1
    /\ \A row \in events_tbl : \E e \in returned : EventRow(e.line) = row

\* C19 witness: a thread is about to insert and its line is already in the
\* file.
C19_Witness ==
    \E t \in Threads :
        /\ pc[t] = "ae_db" /\ ae[t].file = "ok"
        /\ OccIn(ae[t].line, next_ino - 1) = 1
        /\ EventRow(ae[t].line) \notin events_tbl

\* C20, the state part: a line that was written is in the log once, whatever
\* the inserts did.
C20_LineStays ==
    \A e \in returned : e.written => OccIn(e.line, next_ino - 1) = 1

\* C20, the step part: the step in which the insert of append_event fails
\* returns to the caller of append_event with no exception, leaves the files
\* as they are and starts no other attempt.
C20_Swallowed ==
    \A t \in Threads :
        pc[t] = "ae_db" /\ pc'[t] # "ae_db"
        => /\ pc'[t] = ae[t].ret
           /\ raised'[t] = raised[t]
           /\ ae'[t] = NoFrame
           /\ <<files, events_log, rotated, ncalls, ev_attempts>>' = <<files, events_log, rotated, ncalls, ev_attempts>>
           /\ events_tbl' \in {events_tbl, events_tbl \cup {EventRow(ae[t].line)}}

\* C20: a failure of the insert of append_event is swallowed: append_event
\* returns normally, the line appended to the file stays there, and the
\* insert is not tried again.
C20_DbFailureSwallowed == []C20_LineStays /\ [][C20_Swallowed]_vars

\* C20 witness: a call has returned whose line is in the file and whose row
\* is not in table events.
C20_Witness ==
    \E t \in Threads :
        /\ pc[t] = "idle" /\ ncalls[t] >= 1 /\ ~raised[t]
        /\ \E e \in returned :
              /\ e.line.payload.call = <<t, ncalls[t]>>
              /\ e.written /\ OccIn(e.line, next_ino - 1) = 1
              /\ EventRow(e.line) \notin events_tbl

\* ------------------------------------------------------------------ the fallback responder
\* simple_fallback_reply was called on its own by thread t and has returned.
FallbackReturned(t) == pc[t] = "done" /\ calls[t] # <<>> /\ handler[t] = "none"

\* C21 as stated: on the lowercased prompt, a greeting keyword ("hello", "hi",
\* "hey") anywhere in it gives the greeting; otherwise the first of "time",
\* "health", "crypto" in it gives that keyword's canned string; otherwise
\* the generic acknowledgement.
C21_Original ==
    \A t \in Threads :
        FallbackReturned(t)
        => LET p == str_lower(req[t].message) IN
           reply[t] =
               IF str_in(KW_hello, p) \/ str_in(KW_hi, p) \/ str_in(KW_hey, p) THEN GreetingText
               ELSE IF str_in(KW_time, p) THEN ServerTime(fb[t].utcnow)
               ELSE IF str_in(KW_health, p) THEN HealthText
               ELSE IF str_in(KW_crypto, p) THEN CryptoText
               ELSE DefaultText

\* C21 amended: the greeting is returned when the lowercased prompt contains
\* "hello" or, stripped of surrounding whitespace, is "hi" or "hey";
\* otherwise the first of "time", "health", "crypto" in it decides: the
\* server time, the health text, and for "crypto" the local module's
\* crypto_summary() when the module has one and the call does not raise, the
\* canned crypto text if not; otherwise the generic acknowledgement.
C21_KeywordOrder ==
    \A t \in Threads :
        FallbackReturned(t)
        => LET p == str_lower(req[t].message)
               summary == local_ai.present /\ "crypto_summary" \in local_ai.attrs
           IN
           reply[t] =
               IF str_in(KW_hello, p) \/ str_strip(p) = KW_hi \/ str_strip(p) = KW_hey THEN GreetingText
               ELSE IF str_in(KW_time, p) THEN ServerTime(fb[t].utcnow)
               ELSE IF str_in(KW_health, p) THEN HealthText
               ELSE IF str_in(KW_crypto, p)
                    THEN IF summary /\ fb[t].crypto = Returns(1)
                         THEN <<"local_ai.crypto_summary()", 1>>
                         ELSE CryptoText
               ELSE DefaultText

\* C21 witness: "this", which has "hi" inside, got the generic
\* acknowledgement, and " Hi " got the greeting.
C21_Witness ==
    \E t, u \in Threads :
        /\ FallbackReturned(t) /\ req[t].message = <<"t","h","i","s">> /\ reply[t] = DefaultText
        /\ FallbackReturned(u) /\ req[u].message = P_Hi /\ reply[u] = GreetingText

\* C22 as stated: two calls of simple_fallback_reply with the same prompt
\* return the same string whatever the clock and the local module are, and
\* a call invokes no collaborator.
C22_Deterministic ==
    \A t, u \in Threads :
        FallbackReturned(t) /\ FallbackReturned(u) /\ req[t].message = req[u].message
        => /\ reply[t] = reply[u]
           /\ ext[t] = <<>> /\ fb[t].crypto = NotCalled

\* ------------------------------------------------------------------ the log format
\* C23, the state part: every file of the log is whole lines, and every line
\* is one JSON object with exactly the fields type, payload and ts.
C23_Format ==
    \A i \in 1..(next_ino - 1) :
        /\ WholeLines(files[i])
        /\ \A k \in 1..Len(files[i]) : DOMAIN files[i][k].obj = {"type", "payload", "ts"}

\* C23, the step part: in every step each file keeps the lines it had,
\* unchanged and in place; a step adds at most one line, at the end.
C23_Appends ==
    /\ Len(files') >= Len(files)
    /\ \A i \in 1..Len(files) :
          /\ Prefix(files[i], files'[i])
          /\ st_size(files'[i]) <= st_size(files[i]) + 1

\* C23: the event log holds one JSON object {type, payload, ts} per line and
\* append_event only appends to it.
C23_AppendOnly == []C23_Format /\ [][C23_Appends]_vars

\* C23 witness: a second line was appended behind the first one.
C23_Witness ==
    \E i \in 1..(next_ino - 1) :
        /\ st_size(files[i]) = 2
        /\ files[i][1].obj # files[i][3].obj

\* ------------------------------------------------------------------ the background worker
\* The positions of the worker inside a maintenance pass.
InPass == wpc \in {"prune", "unlink", "exists", "stat", "rename"}

\* The step that starts a maintenance pass.
C24_PassStarts == wpc = "loop" /\ wpc' \in {"prune", "unlink", "exists", "stat", "rename"}

\* C24: the worker is cancellable through the shutdown flag: the flag once
\* set stays set, with the flag set no maintenance pass starts and the worker
\* eventually leaves its loop, and shutdown() has set the flag when it waits
\* for the thread and after.
C24_Cancellable ==
    /\ [](pc[MainThread] \in {"sd_join", "exited"} => _shutdown)
    /\ [][(_shutdown => _shutdown') /\ (_shutdown => ~C24_PassStarts)]_vars
    /\ (_shutdown ~> wpc = "stopped")

\* C24 witness: shutdown() ran, its join returned and the worker has left its
\* loop after at least one pass.
C24_Witness ==
    /\ pc[MainThread] = "exited"
    /\ _shutdown
    /\ wpc = "stopped"
    /\ now >= 1

\* The unlink step of a pass, and the listing step of a pass that unlinks
\* nothing.
C25_Unlinks == wpc = "unlink" /\ wpc' = "exists"
C25_ListsOnly == wpc = "prune" /\ wpc' = "exists"

\* C25: a pass lists the .mp3 files; when it lists more than 200 and every
\* unlink succeeds, the files removed are exactly (count - 200) of the listed
\* ones, none of them modified later than a listed file that stays, so that
\* 200 of the listed files stay; when it lists 200 or fewer the directory is
\* left as it is; a file that is not .mp3 is never removed.
C25_Prune ==
    /\ wpc \in {"prune", "unlink"} /\ wpc' \in {"unlink", "exists"}
       => pass'.listed = {f \in audio.files : f.mp3} \/ pass'.listed = pass.listed
    /\ C25_ListsOnly
       => /\ Cardinality({f \in audio.files : f.mp3}) <= KeepAudio
          /\ audio' = audio
    /\ wpc = "prune" /\ wpc' = "unlink"
       => /\ Cardinality({f \in audio.files : f.mp3}) > KeepAudio
          /\ pass'.listed = {f \in audio.files : f.mp3}
          /\ audio' = audio
    /\ C25_Unlinks
       => /\ \A f \in audio.files : ~f.mp3 => f \in audio'.files
          /\ audio'.files = audio.files \ pass'.removed
          /\ pass'.removed \subseteq pass.listed
          /\ pass'.removed = pass.victims
             => /\ Cardinality(pass'.removed) = Cardinality(pass.listed) - KeepAudio
                /\ Cardinality(pass.listed \ pass'.removed) = KeepAudio
                /\ \A r \in pass'.removed : \A k \in pass.listed \ pass'.removed :
                      r.mtime <= k.mtime
    /\ InPass /\ wpc # "unlink" => audio.files \subseteq audio'.files

C25_PruneKeepsNewest == [][C25_Prune]_vars

\* C25 witness: a pass listed as many .mp3 files as the directory can hold,
\* of different ages, and removed the oldest with every unlink succeeding.
C25_Witness ==
    /\ wpc = "exists"
    /\ Cardinality(pass.listed) = MaxAudio
    /\ pass.removed # {} /\ pass.removed = pass.victims
    /\ \E r \in pass.removed : \E k \in pass.listed \ pass.removed : r.mtime < k.mtime

\* A step of a pass in which an exception reaches `except Exception`: the
\* listing of the prune raises, or the stat of events.log does.
C27_PassRaises ==
    \/ wpc = "prune" /\ wpc' \notin {"prune", "unlink", "exists"}
    \/ /\ wpc = "stat" /\ wpc' \notin {"stat", "rename"}
       /\ st_size(files[events_log]) > RotateThreshold

\* A rename of the pass that succeeds.
C27_Renamed == wpc = "rename" /\ events_log' # events_log

\* C27: an exception in a pass does not end the worker: the step that raises
\* takes the worker to its sleep, the worker is out of its loop only with the
\* shutdown flag set, every pass reaches the sleep, the sleep ends (while the
\* clock is followed) and the worker is back at the test of its loop; and a
\* rename that succeeds leaves events.log rotated under the name of the time
\* of the pass.
C27_Survives ==
    /\ [](wpc = "stopped" => _shutdown)
    /\ [][C27_PassRaises => wpc' = "sleep"]_vars
    /\ [][C27_Renamed
           => /\ events_log' = 0
              /\ \E r \in rotated' :
                    r.ts = now /\ r.ino = events_log /\ r.snap = files[events_log]]_vars
    /\ (InPass ~> wpc = "sleep")
    /\ ((wpc = "sleep" /\ now < MaxClock) ~> wpc = "loop")
    /\ ((wpc = "loop" /\ ~_shutdown) ~> (InPass \/ _shutdown))

\* C27 witness: a prune raised in one pass, and a later pass of the same
\* worker rotated the log that was over the threshold.
C27_Witness ==
    /\ pass.raised
    /\ wpc = "sleep"
    /\ rotated # {} /\ \A r \in rotated : r.ts >= 1
    /\ ~_shutdown

\* ------------------------------------------------------------------ the rejected chat request
\* POST /chat answered 400 empty_message.
C26_Rejected(t) ==
    /\ handler[t] = "chat_endpoint"
    /\ out[t].status = 400

\* C26: a chat request rejected for an empty message has ended with nothing
\* done: generate_ai_reply, the adapters, the fallback and the TTS
\* collaborator were not called, no ChatLog commit and no append_event was
\* attempted, chat_logs, the events table and events.log are as they were,
\* and the response carries no reply and no audio, whether or not voice was
\* requested.
C26_NoSideEffects ==
    \A t \in Threads :
        C26_Rejected(t)
        => /\ pc[t] = "done" /\ ~raised[t]
           /\ ~Truthy(req[t].message)
           /\ calls[t] = <<>> /\ ext[t] = <<>> /\ fb[t] = NoFb
           /\ db_attempts[t] = 0 /\ ev_attempts[t] = 0 /\ ncalls[t] = 0
           /\ chat_logs = {} /\ events_tbl = {} /\ returned = {}
           /\ files = <<>> /\ events_log = 0
           /\ emits[t] = <<>>
           /\ out[t] = [NoOut EXCEPT !.status = 400, !.error = "empty_message"]

\* C26 witness: a request with voice set, an empty message and an empty
\* prompt was rejected while the voice service and the microservice are
\* configured.
C26_Witness ==
    \E t \in Threads :
        /\ C26_Rejected(t)
        /\ req[t].voice /\ VOICE_SERVICE_URL /\ AI_SERVICE_URL
        /\ req[t].body = << <<>>, <<>> >>

\* ------------------------------------------------------------------ the book store
\* The books of a sequence, as a set.
BooksIn(s) == {s[i] : i \in 1..Len(s)}

\* C28: a list_books call returns the store as it is: every book whose
\* add_book had completed when the call was made and that passes the filters
\* of the call is counted in total and, when the first page holds the whole
\* list, is among the books returned.
C28_ListsCurrent ==
    listing.called
    => LET a == listing.args
           v == listing.value
           due == {m \in listing.known : Matches(m, a[3], a[4])}
       IN /\ v.total >= Cardinality(due)
          /\ a[1] = 1 /\ v.total <= a[2] => due \subseteq BooksIn(v.books)

\* C29: no update of the store is lost: every book whose add_book call has
\* completed is in books.json, and the view counter of every book is the
\* number of get_book calls that found it and have completed.
C29_NoLostUpdate ==
    /\ hist.adds \subseteq BooksIn(books_json.books)
    /\ \A id \in BookIds : books_json.views[id] = hist.gets[id]

\* ------------------------------------------------------------------ admin token
\* A presented value without its optional "Bearer " prefix.
C30_Unprefixed(s) ==
    IF Len(s) >= Len(Bearer) /\ \A i \in 1..Len(Bearer) : s[i] = Bearer[i]
    THEN [i \in 1..(Len(s) - Len(Bearer)) |-> s[i + Len(Bearer)]]
    ELSE s

\* The request has passed require_admin: admin_backup is about to run or ran.
C30_Reached(t) == pc[t] = "admin_backup" \/ handler[t] = "admin_backup"

\* C30: with NEURA_ADMIN_TOKEN configured the handler is reached only if the
\* Authorization header or the admin_token parameter, without its optional
\* "Bearer " prefix, equals the configured token: exactly when the header, or
\* the parameter when the header is empty, does; every other request ends
\* with 401 {ok: false, error: "unauthorized"}, the handler not invoked and
\* no backup written.  With the token not configured every request reaches
\* the handler.
C30_AdminOnly ==
    \A t \in Threads :
        pc[t] # "idle"
        => LET h == C30_Unprefixed(req[t].header)
               q == C30_Unprefixed(req[t].admin_token)
               presented == IF req[t].header # <<>> THEN h ELSE q
           IN IF NEURA_ADMIN_TOKEN = <<>>
              THEN C30_Reached(t) /\ out[t].status # 401
              ELSE /\ C30_Reached(t) => h = NEURA_ADMIN_TOKEN \/ q = NEURA_ADMIN_TOKEN
                   /\ C30_Reached(t) <=> presented = NEURA_ADMIN_TOKEN
                   /\ ~C30_Reached(t)
                      => /\ pc[t] = "done" /\ out[t] = Unauthorized
                         /\ handler[t] = "none" /\ backups = {} /\ ~raised[t]
                   /\ C30_Reached(t) => out[t].status # 401

\* C30 witness: with a token configured, a request carrying it behind
\* "Bearer " in the header ran admin_backup, which wrote the backup.
C30_Witness ==
    \E t \in Threads :
        /\ NEURA_ADMIN_TOKEN = Secret
        /\ handler[t] = "admin_backup" /\ pc[t] = "done"
        /\ req[t].header = Bearer \o Secret
        /\ out[t].ok /\ backups # {}

====
